---- MODULE Spec2Model ----
(***************************************************************************)
(* A model of the IDSE portal session of src/IDSEConnection.ts: the class  *)
(* IDSEConnection (fields cookies/isInitialized, login(), generarPKCS7(),  *)
(* getMovements()) as a state machine with one action per await point.     *)
(*                                                                         *)
(* The portal, the PFX host and the node-forge library are the             *)
(* environment: every response, thrown error and library result is drawn   *)
(* from a small set.  Text is modelled as a sequence of tokens, so that    *)
(* trim(), replace() and the PEM rewrite are computed, not assumed.        *)
(*                                                                         *)
(* Calls on one instance are made one at a time: every caller in src/      *)
(* awaits login() or getMovements() before it makes the next call, so a    *)
(* call starts only when pc is "idle".                                     *)
(*                                                                         *)
(* The second part models src/cert-to-pfx.ts: CertificateConverter         *)
(* (convertCerKeyToPfx, convertFromUrls, validatePfx) over described       *)
(* files, with node-forge modelled by what it does with each kind of file. *)
(* Spec runs the session, SpecConv the converter.                          *)
(***************************************************************************)
EXTENDS Integers, Sequences, FiniteSets, TLC

VARIABLES
    cookies,            \* IDSEConnection.cookies: Undefined or the Set-Cookie value
    isInitialized,      \* IDSEConnection.isInitialized
    pc,                 \* where the call in progress is suspended ("idle": none)
    op,                 \* the public method the caller invoked: "login" / "getMovements"
    firstResponseText,  \* login(): the challenge body (local)
    pkcs7,              \* login(): the PEM text returned by generarPKCS7 (local)
    p7,                 \* generarPKCS7(): the signed-data structure built, if any
    loginPost,          \* the AccesoIDSE.idse form in flight / last sent in this call
    movCookie,          \* the Cookie header of the AfiliaResultados.idse request
    trace,              \* the external effects of the call in progress, in order
    result,             \* how the last completed call ended
    calls,              \* calls made on the instance so far
    challenge,          \* the answer this call got from SecuenciaFirma.idse
    container,          \* generarPKCS7(): how opening the container went, and
                        \* its locals privateKey and certificate
    raised,             \* generarPKCS7(): the error its catch block caught
    loginAnswer,        \* the answer this call got from AccesoIDSE.idse
    sessionState,       \* the step the latest handshake of the instance reached
    job,                \* CertificateConverter: the arguments of the conversion
                        \* and the files behind its paths or URLs
    convPc,             \* where the conversion stands
    parsed,             \* the conversion's locals certificate and privateKey
    output,             \* how the conversion ended, and the buffer it returned
    verdict,            \* what validatePfx was given and what it returned
    pfxStorage,         \* the PFX server's Map: id -> buffer, Absent when unset
    served,             \* the last request the PFX server answered, and its answer
    written,            \* the buffer first stored under each id since the id
                        \* was last removed or the store cleared
    latest,             \* the buffer last stored under each id since then
    lastOp,             \* the last operation on the PFX store
    txPc,               \* transaction(): the await it is suspended at
    txLog,              \* what transaction() has done with the pool's client
    txCaught,           \* transaction(): the error its catch block caught
    txLocal,            \* transaction(): its local result, what fn returned
    txResult,           \* how the last transaction() ended
    txCount,            \* transaction() calls made so far
    program,            \* the batch script that is running
    clients,            \* batch run: what listCompleteIDSEClients() returned
    cursor,             \* batch run: the loop index i, 1-based
    batchPc,            \* batch run: where main() stands
    results,            \* batch run: the array results
    exit,               \* batch run: how the try block of main() was left
    cleanup             \* batch run: what the finally block has done, in order

sessionVars ==
    <<cookies, isInitialized, pc, op, firstResponseText, pkcs7, p7,
      loginPost, movCookie, trace, result, calls, challenge, container,
      raised, loginAnswer, sessionState>>

convVars == <<job, convPc, parsed, output, verdict>>

storeVars == <<pfxStorage, served, written, latest, lastOp>>

txVars == <<txPc, txLog, txCaught, txLocal, txResult, txCount>>

batchVars == <<program, clients, cursor, batchPc, results, exit, cleanup>>

toolVars == <<storeVars, txVars, batchVars>>

vars == <<sessionVars, convVars, toolVars>>

----------------------------------------------------------------------------
(* Bounds of the model *)

\* calls of login()/getMovements() made on one instance
MaxCalls == 2
\* length of a challenge body, in tokens
MaxBodyLen == 2
\* base64 lines of a PEM body
MaxLines == 2
\* safe bags in a decoded container
MaxBags == 2

\* one session; each is an IDSEConnection instance with its own credentials
Sessions == {"s1"}
\* two instances built for two clients, as a batch run builds them
Instances == {"s1", "s2"}

\* the constructor's arguments, one set per session
User(s) == <<"user", s>>
Password(s) == <<"password", s>>
PfxURL(s) == <<"pfxURL", s>>

----------------------------------------------------------------------------
(* Text *)

SeqsUpTo(S, n) == UNION {[1..k -> S] : k \in 0..n}

\* the bytes of a body: a blank ("sp"), another ASCII character ("c"), and a
\* byte that is no well-formed UTF-8 ("x80")
BodyTokens == {"sp", "c", "x80"}
Bodies == SeqsUpTo(BodyTokens, MaxBodyLen)

\* the UTF-8 decoder of Response.text(): a malformed byte becomes U+FFFD
DecodeByte(b) == IF b = "x80" THEN "fffd" ELSE b
\* the UTF-8 encoder of forge.util.createBuffer(text, "utf8"): U+FFFD becomes
\* the three bytes EF BF BD
EncodeChar(c) == IF c = "fffd" THEN "xEFBFBD" ELSE c

RECURSIVE TrimStart(_)
TrimStart(t) ==
    IF t # <<>> /\ Head(t) = "sp" THEN TrimStart(Tail(t)) ELSE t

RECURSIVE TrimEnd(_)
TrimEnd(t) ==
    IF t # <<>> /\ t[Len(t)] = "sp" THEN TrimEnd(SubSeq(t, 1, Len(t) - 1)) ELSE t

\* String.prototype.trim
Trim(t) == TrimEnd(TrimStart(t))

\* !text || text.trim().length === 0
IsBlank(t) == t = <<>> \/ Len(Trim(t)) = 0

\* Text keeping the trimmed text (await firstResponse.text()).trim()
TextTrimmed(bytes) == Trim([i \in 1..Len(bytes) |-> DecodeByte(bytes[i])])

\* await firstResponse.text(): the body decoded as UTF-8
Text(bytes) == [i \in 1..Len(bytes) |-> DecodeByte(bytes[i])]

\* forge.util.createBuffer(contenido, "utf8"): the text encoded as UTF-8
Utf8Bytes(text) == [i \in 1..Len(text) |-> EncodeChar(text[i])]

\* the substring sub occurs in t at position i
IsAt(t, sub, i) ==
    /\ i >= 1
    /\ i + Len(sub) - 1 <= Len(t)
    /\ SubSeq(t, i, i + Len(sub) - 1) = sub

\* String.prototype.indexOf, 1-based; 0 when absent
IndexOf(t, sub) ==
    IF \E i \in 1..Len(t) : IsAt(t, sub, i)
    THEN CHOOSE i \in 1..Len(t) :
             IsAt(t, sub, i) /\ \A j \in 1..(i - 1) : ~IsAt(t, sub, j)
    ELSE 0

\* String.prototype.replace with a string pattern: the first occurrence only
ReplaceFirst(t, sub, rep) ==
    LET i == IndexOf(t, sub)
    IN  IF i = 0 THEN t
        ELSE SubSeq(t, 1, i - 1) \o rep \o SubSeq(t, i + Len(sub), Len(t))

\* String.prototype.replace with a /g pattern: every occurrence, one pass, left to right
RECURSIVE ReplaceAll(_, _, _)
ReplaceAll(t, sub, rep) ==
    IF t = <<>> THEN <<>>
    ELSE IF IsAt(t, sub, 1)
         THEN rep \o ReplaceAll(SubSeq(t, Len(sub) + 1, Len(t)), sub, rep)
         ELSE <<Head(t)>> \o ReplaceAll(Tail(t), sub, rep)

CRLF == <<"CR", "LF">>
Dashes == "-----"
BeginMarker == <<Dashes, "BEGIN PKCS7", Dashes>>
EndMarker == <<Dashes, "END PKCS7", Dashes>>
EndPlusMarker == <<Dashes, "END+PKCS7", Dashes>>

\* forge.pem.encode, as forge.pkcs7.messageToPem uses it: the two markers on
\* lines of their own, the base64 body in lines, every line ended by CRLF
RECURSIVE JoinLines(_, _)
JoinLines(lines, sep) ==
    IF lines = <<>> THEN <<>>
    ELSE Head(lines) \o sep \o JoinLines(Tail(lines), sep)

PemEncode(lines) ==
    BeginMarker \o CRLF \o JoinLines(lines, CRLF) \o EndMarker \o CRLF

\* a base64 line of the body, as one token
Base64Tokens == {"a", "b"}
Base64Lines == {<<t>> : t \in Base64Tokens}
PemBodies == SeqsUpTo(Base64Lines, MaxLines)

\* ParsePkcs7 with the first replace lacking its g flag
ParsePkcs7FirstBreakOnly(pem) ==
    ReplaceFirst(
        ReplaceFirst(ReplaceFirst(pem, CRLF, <<>>), BeginMarker, <<>>),
        EndMarker, EndPlusMarker)

\* login(): pkcs7.replace(/\r\n/g, "").replace(BEGIN, "").replace(END, END+)
ParsePkcs7(pem) ==
    ReplaceFirst(
        ReplaceFirst(ReplaceAll(pem, CRLF, <<>>), BeginMarker, <<>>),
        EndMarker, EndPlusMarker)

----------------------------------------------------------------------------
(* Errors: the value a call throws, by the message the code gives it and   *)
(* the phrases of the catch block of generarPKCS7 that the message holds   *)

Keywords == {"Invalid password", "MAC verify failure", "Invalid PFX", "ASN.1"}

Err(name) == [name |-> name, kw |-> {}]

NoError == Err("none")
\* fetch() or a body read rejected: transport failure or AbortSignal.timeout
FetchRejected == Err("fetch rejected")
SecuenciaFirmaFailed == Err("SecuenciaFirma failed")
SecuenciaFirmaEmpty == Err("SecuenciaFirma returned empty response")
EmptyContent == Err("Cannot generate PKCS7 from empty content")
PfxFetchFailed == Err("Failed to fetch PFX file")
PfxEmpty == Err("PFX file is empty")
BagsMissing == Err("No se pudo cargar la llave privada o el certificado.")
PemEmpty == Err("PKCS7 generation produced empty result")
PfxPasswordIncorrect == Err("Contrasena del certificado PFX incorrecta")
PfxInvalid == Err("Archivo PFX invalido o corrupto")
Pkcs7Empty == Err("PKCS7 generation failed - empty result")
AccesoIDSEFailed == Err("AccesoIDSE failed")
NoCookies == Err("No cookies received from IDSE login")

\* what node-forge may throw: an Error with any message, or a value that is no Error
LibraryThrows ==
    [name : {"library Error"}, kw : SUBSET Keywords] \cup {Err("not an Error")}

\* MapSigningError with its two tests in the other order
MapSigningErrorPfxFirst(e) ==
    IF e.name = "not an Error" THEN e
    ELSE IF "Invalid PFX" \in e.kw \/ "ASN.1" \in e.kw
         THEN PfxInvalid
    ELSE IF "Invalid password" \in e.kw \/ "MAC verify failure" \in e.kw
         THEN PfxPasswordIncorrect
    ELSE e

\* the catch block of generarPKCS7
MapSigningError(e) ==
    IF e.name = "not an Error" THEN e
    ELSE IF "Invalid password" \in e.kw \/ "MAC verify failure" \in e.kw
         THEN PfxPasswordIncorrect
    ELSE IF "Invalid PFX" \in e.kw \/ "ASN.1" \in e.kw
         THEN PfxInvalid
    ELSE e

----------------------------------------------------------------------------
(* The environment's answers *)

Undefined == "undefined"
\* values of a Set-Cookie header; HeaderAbsent is headers.get() returning null
HeaderAbsent == "null"
Tokens == {"JSESSIONID=a", "JSESSIONID=b"}
SetCookieHeaders == {HeaderAbsent, ""} \cup Tokens

\* the answer to POST SecuenciaFirma.idse
ChallengeOutcomes ==
    [kind : {"ok"}, body : Bodies]
        \cup [kind : {"rejected", "not ok", "body rejected"}, body : {<<>>}]

\* the answer to GET pfxURL
PfxOutcomes == {"rejected", "not ok", "body rejected", "empty", "bytes"}

\* the safe bags of a decoded container: bag.type and bag.key / bag.cert
BagTypes == {"pkcs8ShroudedKeyBag", "certBag", "keyBag"}
Bags == [type : BagTypes, val : {"null", "v1", "v2"}]
BagLists == SeqsUpTo(Bags, MaxBags)

\* the answer to POST AccesoIDSE.idse
LoginOutcomes ==
    [kind : {"response"}, ok : BOOLEAN, setCookie : SetCookieHeaders,
     bodyReadable : BOOLEAN]
        \cup [kind : {"rejected"}, ok : {FALSE}, setCookie : {HeaderAbsent},
              bodyReadable : {FALSE}]

\* the answer to POST AfiliaResultados.idse
MovementsOutcomes == {"rejected", "body rejected", "html"}

----------------------------------------------------------------------------
(* Files, and what node-forge makes of them                                *)

\* password values: each session's own, and one that is nobody's
Passwords == {Password(s) : s \in Instances} \cup {<<"password", "other">>}
\* private keys and certificates, named as the values of the safe bags are
Values == {"v1", "v2"}

\* what a function returns to its caller: a value, or the error it throws
Got(v) == [val |-> v, err |-> NoError]
Thrown(e) == [val |-> "null", err |-> e]

\* the errors of node-forge, by their message
ForgeErrors ==
    [invalidPem |-> Err("Invalid PEM formatted message."),
     pemIsEncrypted |->
         Err("Could not convert private key from PEM; PEM is encrypted."),
     pemHeaderType |->
         Err("Could not convert private key from PEM; PEM header type is not PRIVATE KEY."),
     tooFewBytes |-> Err("Too few bytes to parse DER."),
     notRsaPrivateKey |->
         [name |-> "Cannot read private key. ASN.1 object does not contain an RSAPrivateKey.",
          kw |-> {"ASN.1"}],
     notEncryptedPrivateKeyInfo |->
         [name |-> "Cannot read encrypted private key. ASN.1 object is not a supported EncryptedPrivateKeyInfo.",
          kw |-> {"ASN.1"}],
     notX509 |->
         [name |-> "Cannot read X.509 certificate. ASN.1 object is not an X509v3 Certificate.",
          kw |-> {"ASN.1"}],
     notPkcs12 |->
         [name |-> "Cannot read PKCS#12 PFX. ASN.1 object is not an PKCS#12 PFX.",
          kw |-> {"ASN.1"}],
     otherVersion |->
         Err("PKCS#12 PFX of version other than 3 not supported."),
     macNotVerified |->
         [name |-> "PKCS#12 MAC could not be verified. Invalid password?",
          kw |-> {"Invalid password"}]]

\* the errors that cert-to-pfx.ts throws itself (lines 94, 100, 143, 162,
\* 177) and the one of readFileSync
ConverterErrors ==
    [fetchCer |-> Err("Failed to fetch CER file"),
     fetchKey |-> Err("Failed to fetch KEY file"),
     read |-> Err("ENOENT: no such file or directory"),
     decryptWithPassword |->
         Err("Failed to decrypt private key with provided password"),
     decrypt |-> Err("Failed to decrypt private key"),
     cannotDecrypt |-> Err("Cannot decrypt private key with any method")]

\* a key file: whether its text holds "-----BEGIN" and "ENCRYPTED", what its
\* bytes are, the key in them and the password the key is encrypted under
KeyFiles ==
    [begin : {TRUE}, encrypted : BOOLEAN, holds : {"key"}, key : Values,
     sealedWith : {<<>>}]
    \cup [begin : {TRUE}, encrypted : {TRUE},
          holds : {"legacy encrypted key", "encrypted key"}, key : Values,
          sealedWith : Passwords]
    \cup [begin : {TRUE}, encrypted : BOOLEAN, holds : {"other"},
          key : {"null"}, sealedWith : {<<>>}]
    \cup [begin : {FALSE}, encrypted : {FALSE}, holds : {"key"}, key : Values,
          sealedWith : {<<>>}]
    \cup [begin : {FALSE}, encrypted : {FALSE}, holds : {"encrypted key"},
          key : Values, sealedWith : Passwords]
    \cup [begin : {FALSE}, encrypted : {FALSE}, holds : {"other", "not DER"},
          key : {"null"}, sealedWith : {<<>>}]

\* whether the padding of a wrongly decrypted key happens to be well-formed
Luck == {"padding rejected", "padding accepted"}

\* a cipher run of forge under a password: the key under the right one; under
\* a wrong one no result (cipher.finish() fails) or, the padding passing by
\* chance, bytes that asn1.fromDer cannot parse
Decrypt(f, password, luck) ==
    IF password = f.sealedWith THEN Got(f.key)
    ELSE IF luck = "padding rejected" THEN Got("null")
    ELSE Thrown(ForgeErrors.tooFewBytes)

\* forge.pki.privateKeyFromPem(keyContent)
privateKeyFromPem(f) ==
    CASE f.holds = "key" -> Got(f.key)
      [] f.holds = "legacy encrypted key" -> Thrown(ForgeErrors.pemIsEncrypted)
      [] f.holds = "encrypted key" -> Thrown(ForgeErrors.pemHeaderType)
      [] OTHER -> Thrown(ForgeErrors.invalidPem)

\* forge.pki.decryptRsaPrivateKey(keyContent, password)
decryptRsaPrivateKey(f, password, luck) ==
    CASE f.holds = "key" -> Got(f.key)
      [] f.holds \in {"legacy encrypted key", "encrypted key"} ->
             Decrypt(f, password, luck)
      [] OTHER -> Thrown(ForgeErrors.invalidPem)

\* forge.pki.privateKeyFromAsn1(forge.asn1.fromDer(keyBuffer))
privateKeyFromAsn1(f) ==
    CASE f.holds = "not DER" -> Thrown(ForgeErrors.tooFewBytes)
      [] f.holds = "key" -> Got(f.key)
      [] OTHER -> Thrown(ForgeErrors.notRsaPrivateKey)

\* forge.pki.decryptPrivateKeyInfo(forge.asn1.fromDer(keyBuffer), password)
decryptPrivateKeyInfo(f, password, luck) ==
    CASE f.holds = "not DER" -> Thrown(ForgeErrors.tooFewBytes)
      [] f.holds = "encrypted key" -> Decrypt(f, password, luck)
      [] OTHER -> Thrown(ForgeErrors.notEncryptedPrivateKeyInfo)

\* safe bags of a container that is not the converter's own work
ForeignBagLists ==
    {<<>>,
     <<[type |-> "certBag", val |-> "v1"]>>,
     <<[type |-> "certBag", val |-> "v1"],
       [type |-> "pkcs8ShroudedKeyBag", val |-> "v2"]>>,
     <<[type |-> "certBag", val |-> "v1"], [type |-> "keyBag", val |-> "v2"]>>}

\* a certificate file: whether its text holds "-----BEGIN CERTIFICATE-----",
\* whether it is longer than 100 bytes and begins 30 82, what a PEM decoder
\* and what a DER decoder make of it
CerFiles ==
    [marker : {FALSE}, header : BOOLEAN, pem : {"bad"},
     der : {"not DER", "other"} \cup Values, sealedWith : {<<>>},
     bags : {<<>>}]
    \cup [marker : {TRUE}, header : BOOLEAN, pem : {"bad"} \cup Values,
          der : {"not DER", "other"} \cup Values, sealedWith : {<<>>},
          bags : {<<>>}]
    \cup [marker : BOOLEAN, header : BOOLEAN, pem : {"bad"}, der : {"pfx"},
          sealedWith : Passwords, bags : ForeignBagLists]

\* forge.pki.certificateFromPem(cerContent)
certificateFromPem(c) ==
    IF c.pem \in Values THEN Got(c.pem) ELSE Thrown(ForgeErrors.invalidPem)

\* forge.pki.certificateFromAsn1(forge.asn1.fromDer(cerBuffer))
certificateFromAsn1(c) ==
    CASE c.der = "not DER" -> Thrown(ForgeErrors.tooFewBytes)
      [] c.der \in Values -> Got(c.der)
      [] OTHER -> Thrown(ForgeErrors.notX509)

\* the bytes of a container, or of what should be one: a PKCS#12 structure
\* sealed under a password, or bytes whose header makes them something else
Pkcs12(password, bags) ==
    [kind |-> "pkcs12", sealedWith |-> password, bags |-> bags]
Bytes(kind) == [kind |-> kind, sealedWith |-> <<>>, bags |-> <<>>]

\* the buffer of a certificate file, read as a container
AsContainer(c) ==
    CASE c.der = "pfx" -> Pkcs12(c.sealedWith, c.bags)
      [] c.der = "not DER" -> Bytes("not DER")
      [] OTHER -> Bytes("other DER")

\* forge.pkcs12.pkcs12FromAsn1(forge.asn1.fromDer(bytes), password): the
\* safe bags, once the structure is decoded and its MAC verified
pkcs12FromAsn1(bytes, password) ==
    CASE bytes.kind = "not DER" -> Thrown(ForgeErrors.tooFewBytes)
      [] bytes.kind = "other DER" -> Thrown(ForgeErrors.notPkcs12)
      [] bytes.kind = "other version" -> Thrown(ForgeErrors.otherVersion)
      [] bytes.sealedWith # password -> Thrown(ForgeErrors.macNotVerified)
      [] OTHER -> Got(bytes.bags)

\* toPkcs12Asn1 as forge builds without a password: the key bag not shrouded
toPkcs12Asn1Unshrouded(privateKey, certificate, password) ==
    Pkcs12(password,
           <<[type |-> "certBag", val |-> certificate],
             [type |-> "keyBag", val |-> privateKey]>>)

\* forge.asn1.toDer(forge.pkcs12.toPkcs12Asn1(privateKey, certificate,
\* password, {algorithm: "3des"})): a certificate bag and a shrouded key bag
toPkcs12Asn1(privateKey, certificate, password) ==
    Pkcs12(password,
           <<[type |-> "certBag", val |-> certificate],
             [type |-> "pkcs8ShroudedKeyBag", val |-> privateKey]>>)

----------------------------------------------------------------------------
(* CertificateConverter, src/cert-to-pfx.ts                                *)

\* Strategy reading an unencrypted DER key only under a session's password
StrategyPasswordChecked(k, f, password, luck) ==
    CASE k = 1 -> privateKeyFromPem(f)
      [] k = 2 ->
             IF decryptRsaPrivateKey(f, password, luck) = Got("null")
             THEN Thrown(ConverterErrors.decryptWithPassword)
             ELSE decryptRsaPrivateKey(f, password, luck)
      [] k = 3 ->
             IF password = <<"password", "other">> THEN Thrown(ForgeErrors.tooFewBytes)
             ELSE privateKeyFromAsn1(f)
      [] k = 4 ->
             IF decryptPrivateKeyInfo(f, password, luck) = Got("null")
             THEN Thrown(ConverterErrors.decrypt)
             ELSE decryptPrivateKeyInfo(f, password, luck)
      [] OTHER ->
             IF decryptPrivateKeyInfo(f, password, luck) = Got("null")
             THEN Thrown(ConverterErrors.cannotDecrypt)
             ELSE decryptPrivateKeyInfo(f, password, luck)

\* the five ways of reading a key, each with the test the code puts on its
\* result: (1) line 146, (2) lines 141-144, (3) lines 152-153, (4) lines
\* 157-164, (5) lines 167-178.  (5) wraps the bytes as an ENCRYPTED PRIVATE
\* KEY text and has decryptRsaPrivateKey read it, which decrypts them as
\* decryptPrivateKeyInfo does in (4)
Strategy(k, f, password, luck) ==
    CASE k = 1 -> privateKeyFromPem(f)
      [] k = 2 ->
             IF decryptRsaPrivateKey(f, password, luck) = Got("null")
             THEN Thrown(ConverterErrors.decryptWithPassword)
             ELSE decryptRsaPrivateKey(f, password, luck)
      [] k = 3 -> privateKeyFromAsn1(f)
      [] k = 4 ->
             IF decryptPrivateKeyInfo(f, password, luck) = Got("null")
             THEN Thrown(ConverterErrors.decrypt)
             ELSE decryptPrivateKeyInfo(f, password, luck)
      [] OTHER ->
             IF decryptPrivateKeyInfo(f, password, luck) = Got("null")
             THEN Thrown(ConverterErrors.cannotDecrypt)
             ELSE decryptPrivateKeyInfo(f, password, luck)

\* the strategies tried, in order, and what the last of them gave
Tried(tried, r) == [tried |-> tried, val |-> r.val, err |-> r.err]

\* ParsePrivateKey trying the encrypted reading of DER bytes before the plain one
ParsePrivateKeyEncryptedFirst(via, f, password, luck) ==
    IF f.begin THEN Tried(<<1>>, Strategy(1, f, password, luck))
    ELSE IF Strategy(4, f, password, luck).err = NoError
    THEN Tried(<<4>>, Strategy(4, f, password, luck))
    ELSE IF Strategy(3, f, password, luck).err = NoError
    THEN Tried(<<4, 3>>, Strategy(3, f, password, luck))
    ELSE Tried(<<4, 3, 5>>, Strategy(5, f, password, luck))

\* ParsePrivateKey rethrowing, when all has failed, the first error caught
ParsePrivateKeyFirstError(via, f, password, luck) ==
    IF f.begin
    THEN Tried(<<IF via = "urls" /\ f.encrypted THEN 2 ELSE 1>>,
               Strategy(IF via = "urls" /\ f.encrypted THEN 2 ELSE 1,
                        f, password, luck))
    ELSE IF Strategy(3, f, password, luck).err = NoError \/ via = "files"
    THEN Tried(<<3>>, Strategy(3, f, password, luck))
    ELSE IF Strategy(4, f, password, luck).err = NoError
    THEN Tried(<<3, 4>>, Strategy(4, f, password, luck))
    ELSE Tried(<<3, 4, 5>>, Strategy(3, f, password, luck))

\* convertCerKeyToPfx, lines 42-52 (via = "files"), and convertFromUrls,
\* lines 136-181 (via = "urls"): the private key
ParsePrivateKey(via, f, password, luck) ==
    IF via = "files"
    THEN IF f.begin
         THEN Tried(<<1>>, Strategy(1, f, password, luck))
         ELSE Tried(<<3>>, Strategy(3, f, password, luck))
    ELSE IF f.begin
    THEN IF f.encrypted
         THEN Tried(<<2>>, Strategy(2, f, password, luck))
         ELSE Tried(<<1>>, Strategy(1, f, password, luck))
    ELSE IF Strategy(3, f, password, luck).err = NoError
    THEN Tried(<<3>>, Strategy(3, f, password, luck))
    ELSE IF Strategy(4, f, password, luck).err = NoError
    THEN Tried(<<3, 4>>, Strategy(4, f, password, luck))
    ELSE Tried(<<3, 4, 5>>, Strategy(5, f, password, luck))

\* the decoders the certificate bytes went through, and what the last gave
Decoded(probed, path, r) ==
    [probed |-> probed, path |-> path, val |-> r.val, err |-> r.err]

\* ParseCertificate decoding as DER the bytes that fail to decode as PEM
ParseCertificateFallback(via, c, password) ==
    IF c.marker /\ certificateFromPem(c).err = NoError
    THEN Decoded(FALSE, "pem", certificateFromPem(c))
    ELSE Decoded(FALSE, IF c.marker THEN "pem" ELSE "der", certificateFromAsn1(c))

\* convertCerKeyToPfx, lines 30-40, and convertFromUrls, lines 110-134: the
\* certificate; convertFromUrls first tries bytes that begin 30 82 as a
\* container under the password and, when they open, returns them as they are
ParseCertificate(via, c, password) ==
    IF /\ via = "urls" /\ c.header
       /\ pkcs12FromAsn1(AsContainer(c), password).err = NoError
    THEN Decoded(TRUE, "as is", Got("null"))
    ELSE IF c.marker
    THEN Decoded(via = "urls" /\ c.header, "pem", certificateFromPem(c))
    ELSE Decoded(via = "urls" /\ c.header, "der", certificateFromAsn1(c))

\* how a conversion ended: the buffer it returned, or the error it threw
ConvReturned(bytes) == [status |-> "returned", bytes |-> bytes, err |-> NoError]
ConvThrew(e) == [status |-> "threw", bytes |-> Bytes("none"), err |-> e]

\* convertCerKeyToPfx, lines 54-80, and convertFromUrls, lines 183-196: what
\* the conversion ends with, the certificate and the key parsed as given
Conclude(c, certificate, privateKey, password) ==
    IF certificate.path = "as is" THEN ConvReturned(AsContainer(c))
    ELSE IF certificate.err # NoError THEN ConvThrew(certificate.err)
    ELSE IF privateKey.err # NoError THEN ConvThrew(privateKey.err)
    ELSE ConvReturned(toPkcs12Asn1(privateKey.val, certificate.val, password))

\* validatePfx counting a key bag of any type
validatePfxAnyKeyBag(bytes, password) ==
    /\ pkcs12FromAsn1(bytes, password).err = NoError
    /\ \E i \in 1..Len(pkcs12FromAsn1(bytes, password).val) :
           pkcs12FromAsn1(bytes, password).val[i].type # "certBag"
    /\ \E i \in 1..Len(pkcs12FromAsn1(bytes, password).val) :
           /\ pkcs12FromAsn1(bytes, password).val[i].type = "certBag"
           /\ pkcs12FromAsn1(bytes, password).val[i].val # "null"

\* validatePfx, lines 202-226: false when the try block throws, else
\* hasKey && hasCert
validatePfx(bytes, password) ==
    /\ pkcs12FromAsn1(bytes, password).err = NoError
    /\ \E i \in 1..Len(pkcs12FromAsn1(bytes, password).val) :
           /\ pkcs12FromAsn1(bytes, password).val[i].type = "pkcs8ShroudedKeyBag"
           /\ pkcs12FromAsn1(bytes, password).val[i].val # "null"
    /\ \E i \in 1..Len(pkcs12FromAsn1(bytes, password).val) :
           /\ pkcs12FromAsn1(bytes, password).val[i].type = "certBag"
           /\ pkcs12FromAsn1(bytes, password).val[i].val # "null"

\* a conversion: the converter's entry point, the two files, the password
\* and the luck of a wrong password
Jobs ==
    [via : {"files", "urls"}, cer : CerFiles, key : KeyFiles,
     password : Passwords, luck : Luck]

\* nothing parsed, nothing returned, nothing validated
ConverterIdle ==
    /\ parsed =
           [certificate |-> Decoded(FALSE, "none", Got("null")),
            privateKey |-> Tried(<<>>, Got("null"))]
    /\ output = [status |-> "none", bytes |-> Bytes("none"), err |-> NoError]
    /\ verdict =
           [asked |-> FALSE, bytes |-> Bytes("none"), password |-> <<>>,
            valid |-> FALSE]

----------------------------------------------------------------------------
(* The PFX server, src/idse-descargar-archivos.ts lines 484-539            *)

\* the ids under which containers are stored, and an id never stored
Ids == {"pfx_1", "pfx_2"}
Buffers == {"b1", "b2"}
\* Map.get() of an id that is not set
Absent == "undefined"

\* the requests the server is sent: /pfx/<id>, / and anything else
Paths ==
    {<<"/pfx/", id>> : id \in Ids \cup {"pfx_9"}} \cup {<<"/">>, <<"/other">>}

\* pfxStorage.size
Size(storage) == Cardinality({id \in Ids : storage[id] # Absent})

\* the fetch handler of the server, lines 494-520
Respond(storage, path) ==
    IF path[1] = "/pfx/"
    THEN IF path[2] \in Ids /\ storage[path[2]] # Absent
         THEN [status |-> 200, body |-> storage[path[2]]]
         ELSE [status |-> 404, body |-> "PFX not found"]
    ELSE IF path = <<"/">>
    THEN [status |-> 200, body |-> <<"Active files", Size(storage)>>]
    ELSE [status |-> 404, body |-> "Not found"]

\* the server has started: nothing stored, nothing asked
StoreIdle ==
    /\ pfxStorage = [id \in Ids |-> Absent]
    /\ served = [path |-> <<>>, status |-> 0, body |-> "none"]
    /\ written = [id \in Ids |-> Absent]
    /\ latest = [id \in Ids |-> Absent]
    /\ lastOp = [name |-> "none", id |-> "none"]

----------------------------------------------------------------------------
(* The session *)

NoP7 == [built |-> FALSE, content |-> <<>>, key |-> "null", cert |-> "null"]
NoPost ==
    [sent |-> FALSE, siteId |-> "", pkcs7 |-> <<>>, certificado |-> "",
     llave |-> "", idUsuario |-> <<>>, password |-> <<>>]
NoRequest == "no request"
NoResult == [status |-> "none", err |-> NoError]
Returned == [status |-> "returned", err |-> NoError]
Threw(e) == [status |-> "threw", err |-> e]
NoChallenge == [kind |-> "none", body |-> <<>>]
NoContainer ==
    [status |-> "none", key |-> "null", cert |-> "null", url |-> <<>>,
     password |-> <<>>, file |-> [kind |-> "none", sealedWith |-> <<>>]]
NoLoginAnswer ==
    [kind |-> "none", ok |-> FALSE, setCookie |-> HeaderAbsent,
     bodyReadable |-> FALSE]

\* isLoggedIn(): !!this.cookies && this.isInitialized
isLoggedIn(s) == cookies[s] # Undefined /\ cookies[s] # "" /\ isInitialized[s]

\* no transaction has been asked for
TxIdle ==
    /\ txPc = "idle"
    /\ txLog = <<>>
    /\ txCaught = NoError
    /\ txLocal = "null"
    /\ txResult = Got("null")
    /\ txCount = 0

\* no batch script has been started
BatchIdle ==
    /\ program = "none"
    /\ clients = <<>>
    /\ cursor = 1
    /\ batchPc = "idle"
    /\ results = <<>>
    /\ exit = "none"
    /\ cleanup = <<>>

\* nothing but the session or the conversion is running
ToolsIdle == StoreIdle /\ TxIdle /\ BatchIdle

\* no instance has been used yet
SessionInit ==
    /\ cookies = [s \in Sessions |-> Undefined]
    /\ isInitialized = [s \in Sessions |-> FALSE]
    /\ pc = [s \in Sessions |-> "idle"]
    /\ op = [s \in Sessions |-> "none"]
    /\ firstResponseText = [s \in Sessions |-> <<>>]
    /\ pkcs7 = [s \in Sessions |-> <<>>]
    /\ p7 = [s \in Sessions |-> NoP7]
    /\ loginPost = [s \in Sessions |-> NoPost]
    /\ movCookie = [s \in Sessions |-> NoRequest]
    /\ trace = [s \in Sessions |-> <<>>]
    /\ result = [s \in Sessions |-> NoResult]
    /\ calls = [s \in Sessions |-> 0]
    /\ challenge = [s \in Sessions |-> NoChallenge]
    /\ container = [s \in Sessions |-> NoContainer]
    /\ raised = [s \in Sessions |-> NoError]
    /\ loginAnswer = [s \in Sessions |-> NoLoginAnswer]
    /\ sessionState = [s \in Sessions |-> "Unauthenticated"]

\* the session's start: no conversion is under way
Init ==
    /\ SessionInit
    /\ job = [via |-> "none"]
    /\ convPc = "off"
    /\ ConverterIdle
    /\ ToolsIdle

\* what a call has received and done so far is forgotten when the next begins
ForgetLastCall(s) ==
    /\ result' = [result EXCEPT ![s] = NoResult]
    /\ challenge' = [challenge EXCEPT ![s] = NoChallenge]
    /\ container' = [container EXCEPT ![s] = NoContainer]
    /\ raised' = [raised EXCEPT ![s] = NoError]
    /\ loginAnswer' = [loginAnswer EXCEPT ![s] = NoLoginAnswer]

\* new IDSEConnection(user, password, pfxURL): a fresh instance replaces the old one
Construct(s) ==
    /\ pc[s] = "idle"
    /\ UNCHANGED <<convVars, toolVars>>
    /\ calls[s] > 0
    /\ cookies' = [cookies EXCEPT ![s] = Undefined]
    /\ isInitialized' = [isInitialized EXCEPT ![s] = FALSE]
    /\ op' = [op EXCEPT ![s] = "none"]
    /\ trace' = [trace EXCEPT ![s] = <<>>]
    /\ calls' = [calls EXCEPT ![s] = 0]
    /\ movCookie' = [movCookie EXCEPT ![s] = NoRequest]
    /\ sessionState' = [sessionState EXCEPT ![s] = "Unauthenticated"]
    /\ ForgetLastCall(s)
    /\ UNCHANGED <<pc, firstResponseText, pkcs7, p7, loginPost>>

\* Throw starting the handshake again instead of ending the call
ThrowThenRetry(s, e, events) ==
    /\ pc' = [pc EXCEPT ![s] = "awaitChallenge"]
    /\ result' = [result EXCEPT ![s] = NoResult]
    /\ trace' = [trace EXCEPT ![s] =
           trace[s] \o events \o <<"SecuenciaFirma request">>]
    /\ firstResponseText' = [firstResponseText EXCEPT ![s] = <<>>]
    /\ pkcs7' = [pkcs7 EXCEPT ![s] = <<>>]
    /\ p7' = [p7 EXCEPT ![s] = NoP7]
    /\ loginPost' = [loginPost EXCEPT ![s] = NoPost]
    /\ sessionState' = [sessionState EXCEPT ![s] = "Unauthenticated"]

\* a handshake step throws e and login() ends: its locals go out of scope,
\* the fields stay as they are
Throw(s, e, events) ==
    /\ pc' = [pc EXCEPT ![s] = "idle"]
    /\ result' = [result EXCEPT ![s] = Threw(e)]
    /\ trace' = [trace EXCEPT ![s] = trace[s] \o events]
    /\ firstResponseText' = [firstResponseText EXCEPT ![s] = <<>>]
    /\ pkcs7' = [pkcs7 EXCEPT ![s] = <<>>]
    /\ p7' = [p7 EXCEPT ![s] = NoP7]
    /\ loginPost' = [loginPost EXCEPT ![s] = NoPost]
    /\ sessionState' = [sessionState EXCEPT ![s] = "Failed"]

\* StartLogin asking for the container at once, without awaiting the challenge
StartLoginSpeculative(s) ==
    /\ pc' = [pc EXCEPT ![s] = "awaitPfx"]
    /\ trace' = [trace EXCEPT ![s] =
           <<"SecuenciaFirma request", "generarPKCS7", "PFX request">>]
    /\ sessionState' = [sessionState EXCEPT ![s] = "Unauthenticated"]
    /\ UNCHANGED <<cookies, isInitialized, firstResponseText, pkcs7, p7,
                   loginPost>>

\* login() up to its first await: the challenge request is sent
StartLogin(s) ==
    /\ pc' = [pc EXCEPT ![s] = "awaitChallenge"]
    /\ trace' = [trace EXCEPT ![s] = <<"SecuenciaFirma request">>]
    /\ sessionState' = [sessionState EXCEPT ![s] = "Unauthenticated"]
    /\ UNCHANGED <<cookies, isInitialized, firstResponseText, pkcs7, p7,
                   loginPost>>

\* getMovements(), lines 276-307: POST AfiliaResultados.idse with
\* Cookie: this.cookies
SendMovementsRequest(s, cookie, events) ==
    /\ pc' = [pc EXCEPT ![s] = "awaitMovements"]
    /\ movCookie' = [movCookie EXCEPT ![s] = cookie]
    /\ trace' = [trace EXCEPT ![s] = events \o <<"AfiliaResultados request">>]

\* the caller invokes login()
LoginCall(s) ==
    /\ pc[s] = "idle"
    /\ UNCHANGED <<convVars, toolVars>>
    /\ calls[s] < MaxCalls
    /\ calls' = [calls EXCEPT ![s] = calls[s] + 1]
    /\ op' = [op EXCEPT ![s] = "login"]
    /\ movCookie' = [movCookie EXCEPT ![s] = NoRequest]
    /\ ForgetLastCall(s)
    /\ StartLogin(s)

\* NeedsLogin with the test of line 271 inverted
NeedsLoginInverted(s) == isLoggedIn(s)

\* getMovements(), lines 271-274: login() first when not logged in
NeedsLogin(s) == ~isLoggedIn(s)

\* the caller invokes getMovements()
GetMovementsCall(s) ==
    /\ pc[s] = "idle"
    /\ UNCHANGED <<convVars, toolVars>>
    /\ calls[s] < MaxCalls
    /\ calls' = [calls EXCEPT ![s] = calls[s] + 1]
    /\ op' = [op EXCEPT ![s] = "getMovements"]
    /\ ForgetLastCall(s)
    /\ IF NeedsLogin(s)
       THEN /\ movCookie' = [movCookie EXCEPT ![s] = NoRequest]
            /\ StartLogin(s)
       ELSE /\ SendMovementsRequest(s, cookies[s], <<>>)
            /\ UNCHANGED <<cookies, isInitialized, firstResponseText, pkcs7,
                           p7, loginPost, sessionState>>

\* ChallengeError without the test of lines 175-177 for an empty body
ChallengeErrorNoEmptyCheck(o) ==
    CASE o.kind = "rejected" -> FetchRejected
      [] o.kind = "not ok" -> SecuenciaFirmaFailed
      [] o.kind = "body rejected" -> FetchRejected
      [] OTHER -> NoError

\* login(), lines 154-177: what the challenge step throws for answer o
\* (NoError: the body is accepted as the text to sign)
ChallengeError(o) ==
    CASE o.kind = "rejected" -> FetchRejected
      [] o.kind = "not ok" -> SecuenciaFirmaFailed
      [] o.kind = "body rejected" -> FetchRejected
      [] OTHER -> IF IsBlank(Text(o.body)) THEN SecuenciaFirmaEmpty ELSE NoError

\* generarPKCS7(), lines 31-33: the guard on its argument
ContentError(contenido) ==
    IF IsBlank(contenido) THEN EmptyContent ELSE NoError

\* the challenge answer arrives; login() checks it and calls
\* generarPKCS7(firstResponseText), which requests the container
ChallengeResponse(s) ==
    /\ pc[s] = "awaitChallenge"
    /\ UNCHANGED <<convVars, toolVars>>
    /\ \E o \in ChallengeOutcomes :
         LET got == IF o.kind = "rejected" THEN <<>>
                    ELSE <<"SecuenciaFirma response">>
         IN  /\ challenge' = [challenge EXCEPT ![s] = o]
             /\ IF ChallengeError(o) # NoError
                THEN Throw(s, ChallengeError(o), got)
                ELSE IF ContentError(Text(o.body)) # NoError
                THEN Throw(s, ContentError(Text(o.body)),
                           got \o <<"generarPKCS7">>)
                ELSE /\ firstResponseText' =
                            [firstResponseText EXCEPT ![s] = Text(o.body)]
                     /\ pc' = [pc EXCEPT ![s] = "awaitPfx"]
                     /\ trace' = [trace EXCEPT ![s] =
                            trace[s] \o got \o <<"generarPKCS7", "PFX request">>]
                     /\ sessionState' =
                            [sessionState EXCEPT ![s] = "ChallengeFetched"]
                     /\ UNCHANGED <<pkcs7, p7, loginPost, result>>
    /\ UNCHANGED <<cookies, isInitialized, op, movCookie, calls, container,
                   raised, loginAnswer>>

\* generarPKCS7(), lines 37-53: what the container fetch throws for answer o
PfxError(o) ==
    CASE o = "rejected" -> FetchRejected
      [] o = "not ok" -> PfxFetchFailed
      [] o = "body rejected" -> FetchRejected
      [] o = "empty" -> PfxEmpty
      [] OTHER -> NoError

\* the container answer arrives
PfxResponse(s) ==
    /\ pc[s] = "awaitPfx"
    /\ UNCHANGED <<convVars, toolVars>>
    /\ \E o \in PfxOutcomes :
         LET got == IF o = "rejected" THEN <<>> ELSE <<"PFX response">>
         IN  IF PfxError(o) # NoError
             THEN Throw(s, PfxError(o), got)
             ELSE /\ pc' = [pc EXCEPT ![s] = "openPfx"]
                  /\ trace' = [trace EXCEPT ![s] = trace[s] \o got]
                  /\ UNCHANGED <<firstResponseText, pkcs7, p7, loginPost,
                                 result, sessionState>>
    /\ UNCHANGED <<cookies, isInitialized, op, movCookie, calls, challenge,
                   container, raised, loginAnswer>>

\* generarPKCS7(), lines 62-76: the last bag of each kind that carries a value
RECURSIVE LastVal(_, _)
LastVal(bags, type) ==
    IF bags = <<>> THEN "null"
    ELSE LET b == bags[Len(bags)]
         IN  IF b.type = type /\ b.val # "null" THEN b.val
             ELSE LastVal(SubSeq(bags, 1, Len(bags) - 1), type)

PrivateKeyOf(bags) == LastVal(bags, "pkcs8ShroudedKeyBag")
CertificateOf(bags) == LastVal(bags, "certBag")

\* BagsError testing the private key only
BagsErrorKeyOnly(privateKey, certificate) ==
    IF privateKey = "null" THEN BagsMissing ELSE NoError

\* generarPKCS7(), lines 78-80
BagsError(privateKey, certificate) ==
    IF privateKey = "null" \/ certificate = "null" THEN BagsMissing ELSE NoError

\* generarPKCS7(), lines 83-92: the signed-data structure over contenido
SignedData(contenido, privateKey, certificate) ==
    [built |-> TRUE, content |-> Utf8Bytes(contenido), key |-> privateKey,
     cert |-> certificate]

\* generarPKCS7(), lines 99-101
PemError(pem) == IF Len(pem) = 0 THEN PemEmpty ELSE NoError

\* login(), lines 183-185
Pkcs7Error(pem) == IF Len(pem) = 0 THEN Pkcs7Empty ELSE NoError

\* generarPKCS7(), lines 104-123: an error of the try block goes through the
\* catch block to the caller of login()
ThrowCaught(s, e, events) ==
    /\ raised' = [raised EXCEPT ![s] = e]
    /\ Throw(s, MapSigningError(e), events)

\* what the try block opened: the bytes fetched from this.pfxURL (line 36),
\* under this.password (line 60)
Opened(s, bags) ==
    [status |-> "opened", key |-> PrivateKeyOf(bags),
     cert |-> CertificateOf(bags), url |-> PfxURL(s),
     password |-> Password(s),
     file |-> [kind |-> "pkcs12", sealedWith |-> Password(s)]]
OpenFailed(s, bytes) ==
    [status |-> "open failed", key |-> "null", cert |-> "null",
     url |-> PfxURL(s), password |-> Password(s),
     file |-> [kind |-> bytes.kind, sealedWith |-> bytes.sealedWith]]

\* the bytes that GET pfxURL answers with: a container sealed under some
\* password, or a container whose first bytes were altered
ContainerFiles ==
    {Pkcs12(password, bags) : password \in Passwords, bags \in BagLists}
        \cup {Bytes(kind) : kind \in {"not DER", "other DER", "other version"}}

\* the forge calls made when the opening ended
OpenEvents(bytes) ==
    IF bytes.kind = "not DER" THEN <<"fromDer">>
    ELSE <<"fromDer", "pkcs12FromAsn1">>

\* generarPKCS7(), lines 55-80: the try block opens the container and picks
\* the key and the certificate out of its bags
OpenStep(s) ==
    /\ pc[s] = "openPfx"
    /\ UNCHANGED <<convVars, toolVars>>
    /\ \E bytes \in ContainerFiles :
         LET p12 == pkcs12FromAsn1(bytes, Password(s))
             privateKey == PrivateKeyOf(p12.val)
             certificate == CertificateOf(p12.val)
         IN  IF p12.err # NoError
             THEN /\ container' = [container EXCEPT ![s] = OpenFailed(s, bytes)]
                  /\ ThrowCaught(s, p12.err, OpenEvents(bytes))
             ELSE /\ container' = [container EXCEPT ![s] = Opened(s, p12.val)]
                  /\ IF BagsError(privateKey, certificate) # NoError
                     THEN ThrowCaught(s, BagsError(privateKey, certificate),
                                      OpenEvents(bytes))
                     ELSE /\ pc' = [pc EXCEPT ![s] = "sign"]
                          /\ trace' = [trace EXCEPT ![s] =
                                trace[s] \o OpenEvents(bytes)]
                          /\ UNCHANGED <<firstResponseText, pkcs7, p7,
                                         loginPost, result, raised,
                                         sessionState>>
    /\ UNCHANGED <<cookies, isInitialized, op, movCookie, calls, challenge,
                   loginAnswer>>

\* generarPKCS7(), lines 82-103: the signed-data structure is built over the
\* challenge, signed and returned as PEM text to login(), lines 180-185
SignStep(s) ==
    /\ pc[s] = "sign"
    /\ UNCHANGED <<convVars, toolVars>>
    /\ LET signed == <<"createSignedData">>
       IN  \/ \E e \in LibraryThrows :
                \* privateKeyToPem, addSigner, sign or messageToPem throws
                ThrowCaught(s, e, signed)
           \/ \E pem \in {<<>>} \cup {PemEncode(b) : b \in PemBodies} :
                IF PemError(pem) # NoError
                THEN ThrowCaught(s, PemError(pem), signed \o <<"sign">>)
                ELSE IF Pkcs7Error(pem) # NoError
                THEN /\ Throw(s, Pkcs7Error(pem), signed \o <<"sign">>)
                     /\ UNCHANGED raised
                ELSE /\ p7' = [p7 EXCEPT ![s] =
                           SignedData(firstResponseText[s], container[s].key,
                                      container[s].cert)]
                     /\ pkcs7' = [pkcs7 EXCEPT ![s] = pem]
                     /\ pc' = [pc EXCEPT ![s] = "submit"]
                     /\ trace' = [trace EXCEPT ![s] =
                           trace[s] \o signed \o <<"sign">>]
                     /\ sessionState' = [sessionState EXCEPT ![s] = "Signed"]
                     /\ UNCHANGED <<firstResponseText, loginPost, result, raised>>
    /\ UNCHANGED <<cookies, isInitialized, op, movCookie, calls, challenge,
                   container, loginAnswer>>

\* login(), lines 187-199: the form of the login request
LoginBody(s, pem) ==
    [sent |-> TRUE, siteId |-> "9", pkcs7 |-> ParsePkcs7(pem),
     certificado |-> "CERT.pfx", llave |-> "CERT.pfx",
     idUsuario |-> User(s), password |-> Password(s)]

\* login(), lines 187-227: the PEM text is rewritten and the login request sent
SubmitStep(s) ==
    /\ pc[s] = "submit"
    /\ UNCHANGED <<convVars, toolVars>>
    /\ loginPost' = [loginPost EXCEPT ![s] = LoginBody(s, pkcs7[s])]
    /\ pc' = [pc EXCEPT ![s] = "awaitLogin"]
    /\ trace' = [trace EXCEPT ![s] = trace[s] \o <<"AccesoIDSE request">>]
    /\ UNCHANGED <<cookies, isInitialized, op, firstResponseText, pkcs7, p7,
                   movCookie, result, calls, challenge, container, raised,
                   loginAnswer, sessionState>>

\* StoreCookies with the cookie kept where every instance reads it
StoreCookiesShared(s, c) == cookies' = [t \in DOMAIN cookies |-> c]

\* login(), line 246: the assignment to the field of this instance
StoreCookies(s, c) == cookies' = [cookies EXCEPT ![s] = c]

\* CookiesFrom keeping only whether a cookie came, not its value
CookiesFromPresence(setCookie) ==
    IF setCookie = HeaderAbsent \/ setCookie = "" THEN Undefined ELSE "true"

\* login(), line 246: this.cookies = setCookieHeader || undefined
CookiesFrom(setCookie) ==
    IF setCookie = HeaderAbsent \/ setCookie = "" THEN Undefined ELSE setCookie

\* CookiesAfter writing the field only when a cookie came
\* (if (setCookieHeader) this.cookies = setCookieHeader)
CookiesAfterKeepOld(old, o) ==
    IF o.kind = "response" /\ o.ok /\ CookiesFrom(o.setCookie) # Undefined
    THEN CookiesFrom(o.setCookie) ELSE old

\* CookiesAfter reading Set-Cookie before the status check
CookiesAfterAnyStatus(old, o) ==
    IF o.kind = "response" THEN CookiesFrom(o.setCookie) ELSE old

\* login(), lines 237-246: the field is written only past the status check
CookiesAfter(old, o) ==
    IF o.kind = "response" /\ o.ok THEN CookiesFrom(o.setCookie) ELSE old

\* LoginError without the test of lines 249-261 for a missing cookie
LoginErrorStatusOnly(o, c) ==
    CASE o.kind = "rejected" -> FetchRejected
      [] ~o.ok -> AccesoIDSEFailed
      [] OTHER -> NoError

\* login(), lines 237-261: what the submission step throws for answer o, the
\* field cookies being c by then (NoError: login() sets isInitialized and
\* returns true)
LoginError(o, c) ==
    CASE o.kind = "rejected" -> FetchRejected
      [] ~o.ok -> AccesoIDSEFailed
      [] c = Undefined \/ c = "" ->
             IF o.bodyReadable THEN NoCookies ELSE FetchRejected
      [] OTHER -> NoError

\* the login answer arrives; on success login() returns true and, inside
\* getMovements(), the protected request follows
LoginResponse(s) ==
    /\ pc[s] = "awaitLogin"
    /\ UNCHANGED <<convVars, toolVars>>
    /\ \E o \in LoginOutcomes :
         LET got == IF o.kind = "rejected" THEN <<>>
                    ELSE <<"AccesoIDSE response">>
         IN  /\ loginAnswer' = [loginAnswer EXCEPT ![s] = o]
             /\ StoreCookies(s, CookiesAfter(cookies[s], o))
             /\ IF LoginError(o, CookiesAfter(cookies[s], o)) # NoError
                THEN /\ Throw(s, LoginError(o, CookiesAfter(cookies[s], o)), got)
                     /\ UNCHANGED <<isInitialized, movCookie>>
                ELSE /\ isInitialized' = [isInitialized EXCEPT ![s] = TRUE]
                     /\ sessionState' =
                            [sessionState EXCEPT ![s] = "Authenticated"]
                     /\ firstResponseText' =
                            [firstResponseText EXCEPT ![s] = <<>>]
                     /\ pkcs7' = [pkcs7 EXCEPT ![s] = <<>>]
                     /\ p7' = [p7 EXCEPT ![s] = NoP7]
                     /\ loginPost' = [loginPost EXCEPT ![s] = NoPost]
                     /\ IF op[s] = "login"
                        THEN /\ pc' = [pc EXCEPT ![s] = "idle"]
                             /\ result' = [result EXCEPT ![s] = Returned]
                             /\ trace' = [trace EXCEPT ![s] = trace[s] \o got]
                             /\ UNCHANGED movCookie
                        ELSE /\ SendMovementsRequest(
                                    s, CookiesAfter(cookies[s], o), trace[s] \o got)
                             /\ UNCHANGED result
    /\ UNCHANGED <<op, calls, challenge, container, raised>>

\* the movements page arrives and is parsed; getMovements() returns the rows
MovementsResponse(s) ==
    /\ pc[s] = "awaitMovements"
    /\ UNCHANGED <<convVars, toolVars>>
    /\ \E o \in MovementsOutcomes :
         /\ pc' = [pc EXCEPT ![s] = "idle"]
         /\ IF o = "html"
            THEN /\ result' = [result EXCEPT ![s] = Returned]
                 /\ trace' = [trace EXCEPT ![s] =
                        trace[s] \o <<"AfiliaResultados response">>]
            ELSE /\ result' = [result EXCEPT ![s] = Threw(FetchRejected)]
                 /\ trace' = [trace EXCEPT ![s] =
                        IF o = "rejected" THEN trace[s]
                        ELSE trace[s] \o <<"AfiliaResultados response">>]
    /\ UNCHANGED <<cookies, isInitialized, op, firstResponseText, pkcs7, p7,
                   loginPost, movCookie, calls, challenge, container, raised,
                   loginAnswer, sessionState>>

Next ==
    \E s \in Sessions :
        \/ Construct(s)
        \/ LoginCall(s)
        \/ GetMovementsCall(s)
        \/ ChallengeResponse(s)
        \/ PfxResponse(s)
        \/ OpenStep(s)
        \/ SignStep(s)
        \/ SubmitStep(s)
        \/ LoginResponse(s)
        \/ MovementsResponse(s)

Spec == Init /\ [][Next]_vars

----------------------------------------------------------------------------
(* Two instances at once *)

\* two instances have been constructed for two clients; neither has been used
PairInit ==
    /\ cookies = [s \in Instances |-> Undefined]
    /\ isInitialized = [s \in Instances |-> FALSE]
    /\ pc = [s \in Instances |-> "idle"]
    /\ op = [s \in Instances |-> "none"]
    /\ firstResponseText = [s \in Instances |-> <<>>]
    /\ pkcs7 = [s \in Instances |-> <<>>]
    /\ p7 = [s \in Instances |-> NoP7]
    /\ loginPost = [s \in Instances |-> NoPost]
    /\ movCookie = [s \in Instances |-> NoRequest]
    /\ trace = [s \in Instances |-> <<>>]
    /\ result = [s \in Instances |-> NoResult]
    /\ calls = [s \in Instances |-> 0]
    /\ challenge = [s \in Instances |-> NoChallenge]
    /\ container = [s \in Instances |-> NoContainer]
    /\ raised = [s \in Instances |-> NoError]
    /\ loginAnswer = [s \in Instances |-> NoLoginAnswer]
    /\ sessionState = [s \in Instances |-> "Unauthenticated"]
    /\ job = [via |-> "none"]
    /\ convPc = "off"
    /\ ConverterIdle
    /\ ToolsIdle

\* the answers the two instances get: a challenge of one byte at most, a
\* PEM text of one line at most, a library error of one phrase at most
PairEnv(s) ==
    /\ Len(challenge[s].body) <= 1
    /\ raised[s].kw \in {{}, {"ASN.1"}, {"Invalid password"}}
    /\ pkcs7[s] \in {<<>>} \cup {PemEncode(<<l>>) : l \in Base64Lines}

\* each instance logs in once, its steps interleaved with the other's
NextPair ==
    \E s \in Instances :
        \/ calls[s] = 0 /\ LoginCall(s)
        \/ ChallengeResponse(s) /\ PairEnv(s)'
        \/ PfxResponse(s)
        \/ OpenStep(s) /\ PairEnv(s)'
        \/ SignStep(s) /\ PairEnv(s)'
        \/ SubmitStep(s)
        \/ LoginResponse(s)

SpecPair == PairInit /\ [][NextPair]_vars

----------------------------------------------------------------------------
(* A conversion, and a validation of what it returned *)

\* a conversion is asked for; nothing has been read yet
ConvInit ==
    /\ SessionInit
    /\ job \in Jobs
    /\ convPc = "fetch"
    /\ ConverterIdle
    /\ ToolsIdle

\* convertFromUrls, lines 91-104 (fetch of the two URLs), and
\* convertCerKeyToPfx, lines 24-28 (readFileSync of the two paths)
FetchError(via, o) ==
    CASE o = "ok" -> NoError
      [] via = "files" -> ConverterErrors.read
      [] o = "cer not ok" -> ConverterErrors.fetchCer
      [] o = "key not ok" -> ConverterErrors.fetchKey
      [] OTHER -> FetchRejected

FetchInputs ==
    /\ convPc = "fetch"
    /\ \E o \in {"ok", "cer not ok", "key not ok", "rejected"} :
         IF FetchError(job.via, o) # NoError
         THEN /\ output' = ConvThrew(FetchError(job.via, o))
              /\ convPc' = "done"
         ELSE /\ convPc' = "parse"
              /\ UNCHANGED output
    /\ UNCHANGED <<job, parsed, verdict, sessionVars, toolVars>>

\* the rest of the conversion, which runs without awaiting: the certificate
\* is parsed, then the key, then the container built
Convert ==
    /\ convPc = "parse"
    /\ LET certificate == ParseCertificate(job.via, job.cer, job.password)
           privateKey ==
               IF certificate.path = "as is" \/ certificate.err # NoError
               THEN Tried(<<>>, Got("null"))
               ELSE ParsePrivateKey(job.via, job.key, job.password, job.luck)
       IN  /\ parsed' = [certificate |-> certificate, privateKey |-> privateKey]
           /\ output' = Conclude(job.cer, certificate, privateKey, job.password)
    /\ convPc' = "done"
    /\ UNCHANGED <<job, verdict, sessionVars, toolVars>>

\* the buffer a conversion returned, as it is or with its header bytes altered
Stored(bytes) ==
    {bytes, Bytes("not DER"), Bytes("other DER"), Bytes("other version")}

\* validatePfx(pfxBuffer, password) on a buffer that a conversion returned
Validate ==
    /\ convPc = "done"
    /\ output.status = "returned"
    /\ \E bytes \in Stored(output.bytes), password \in Passwords :
         verdict' = [asked |-> TRUE, bytes |-> bytes, password |-> password,
                     valid |-> validatePfx(bytes, password)]
    /\ convPc' = "validated"
    /\ UNCHANGED <<job, parsed, output, sessionVars, toolVars>>

NextConv == FetchInputs \/ Convert \/ Validate

SpecConv == ConvInit /\ [][NextConv]_vars

----------------------------------------------------------------------------
(* The PFX server and its callers *)

\* storePFX keeping what is already stored under the id
storePFXOnce(id, buffer) ==
    /\ pfxStorage' = [pfxStorage EXCEPT
           ![id] = IF pfxStorage[id] = Absent THEN buffer ELSE pfxStorage[id]]
    /\ written' = [written EXCEPT
           ![id] = IF written[id] = Absent THEN buffer ELSE written[id]]
    /\ latest' = [latest EXCEPT ![id] = buffer]
    /\ lastOp' = [name |-> "storePFX", id |-> id]
    /\ UNCHANGED served

\* storePFX(id, buffer), lines 527-530: pfxStorage.set(id, buffer)
storePFX(id, buffer) ==
    /\ pfxStorage' = [pfxStorage EXCEPT ![id] = buffer]
    /\ written' = [written EXCEPT
           ![id] = IF written[id] = Absent THEN buffer ELSE written[id]]
    /\ latest' = [latest EXCEPT ![id] = buffer]
    /\ lastOp' = [name |-> "storePFX", id |-> id]
    /\ UNCHANGED served

\* removePFX(id), lines 532-534: pfxStorage.delete(id)
removePFX(id) ==
    /\ pfxStorage' = [pfxStorage EXCEPT ![id] = Absent]
    /\ written' = [written EXCEPT ![id] = Absent]
    /\ latest' = [latest EXCEPT ![id] = Absent]
    /\ lastOp' = [name |-> "removePFX", id |-> id]
    /\ UNCHANGED served

\* clearAllPFX(), lines 536-538: pfxStorage.clear()
clearAllPFX ==
    /\ pfxStorage' = [id \in Ids |-> Absent]
    /\ written' = [id \in Ids |-> Absent]
    /\ latest' = [id \in Ids |-> Absent]
    /\ lastOp' = [name |-> "clearAllPFX", id |-> "none"]
    /\ UNCHANGED served

\* a request reaches the server
Get(path) ==
    /\ served' = [path |-> path,
                  status |-> Respond(pfxStorage, path).status,
                  body |-> Respond(pfxStorage, path).body]
    /\ lastOp' = [name |-> "GET", id |-> "none"]
    /\ UNCHANGED <<pfxStorage, written, latest>>

NextStore ==
    \/ /\ \E id \in Ids, buffer \in Buffers : storePFX(id, buffer)
       /\ UNCHANGED <<sessionVars, convVars, txVars, batchVars>>
    \/ /\ \E id \in Ids : removePFX(id)
       /\ UNCHANGED <<sessionVars, convVars, txVars, batchVars>>
    \/ clearAllPFX /\ UNCHANGED <<sessionVars, convVars, txVars, batchVars>>
    \/ /\ \E path \in Paths : Get(path)
       /\ UNCHANGED <<sessionVars, convVars, txVars, batchVars>>

\* the server starts with the process, before any caller runs
SpecStore == Init /\ [][NextStore]_vars

----------------------------------------------------------------------------
(* transaction(), src/IDSEConnection.ts lines 400-415                      *)

TxErrors ==
    [connect |-> Err("pool.connect failed"), begin |-> Err("BEGIN failed"),
     fn |-> Err("fn failed"), fnQuery |-> Err("a query of fn failed"),
     commit |-> Err("COMMIT failed"),
     rollback |-> Err("ROLLBACK failed")]

\* the call ends: the finally block has released the client
TxEnd(events, r) ==
    /\ txPc' = "idle"
    /\ txLog' = txLog \o events \o <<"release">>
    /\ txResult' = r

\* the try block throws e at a query or in fn: the catch block issues ROLLBACK
TxCatch(event, e) ==
    /\ txPc' = "rollback"
    /\ txLog' = txLog \o <<event, "ROLLBACK">>
    /\ txCaught' = e
    /\ UNCHANGED <<txLocal, txResult>>

\* transaction(fn) up to its first await: getClient()
TxCall ==
    /\ txPc = "idle"
    /\ txCount < MaxCalls
    /\ txCount' = txCount + 1
    /\ txPc' = "connect"
    /\ txLog' = <<>>
    /\ txCaught' = NoError
    /\ txLocal' = "null"
    /\ UNCHANGED txResult

\* line 403: the pool gives a client, and BEGIN is issued, or connect rejects
TxConnect ==
    /\ txPc = "connect"
    /\ \E ok \in BOOLEAN :
         IF ok
         THEN /\ txPc' = "begin"
              /\ txLog' = txLog \o <<"connect">>
              /\ UNCHANGED txResult
         ELSE /\ txPc' = "idle"
              /\ txResult' = Thrown(TxErrors.connect)
              /\ UNCHANGED txLog
    /\ UNCHANGED <<txCaught, txLocal, txCount>>

\* line 405: BEGIN is answered; fn(client) is called
TxBegin ==
    /\ txPc = "begin"
    /\ \E ok \in BOOLEAN :
         IF ok
         THEN /\ txPc' = "fn"
              /\ txLog' = txLog \o <<"BEGIN">>
              /\ UNCHANGED <<txCaught, txLocal, txResult>>
         ELSE TxCatch("BEGIN", TxErrors.begin)
    /\ UNCHANGED txCount

\* line 406: fn settles; COMMIT is issued when it returned
TxFn ==
    /\ txPc = "fn"
    /\ \E r \in {Got(v) : v \in Values}
                 \cup {Thrown(TxErrors.fn), Thrown(TxErrors.fnQuery)} :
         IF r.err = NoError
         THEN /\ txPc' = "commit"
              /\ txLog' = txLog \o <<"fn">>
              /\ txLocal' = r.val
              /\ UNCHANGED <<txCaught, txResult>>
         ELSE TxCatch("fn", r.err)
    /\ UNCHANGED txCount

\* lines 407-408: COMMIT is answered
TxCommit ==
    /\ txPc = "commit"
    /\ \E ok \in BOOLEAN :
         IF ok
         THEN /\ TxEnd(<<"COMMIT">>, Got(txLocal))
              /\ UNCHANGED <<txCaught, txLocal>>
         ELSE TxCatch("COMMIT", TxErrors.commit)
    /\ UNCHANGED txCount

\* lines 409-413: ROLLBACK is answered; the error caught is thrown again,
\* unless ROLLBACK itself rejected, and the client is released
TxRollback ==
    /\ txPc = "rollback"
    /\ \E ok \in BOOLEAN :
         TxEnd(<<>>, Thrown(IF ok THEN txCaught ELSE TxErrors.rollback))
    /\ UNCHANGED <<txCaught, txLocal, txCount>>

NextTx ==
    \/ TxCall /\ UNCHANGED <<sessionVars, convVars, storeVars, batchVars>>
    \/ TxConnect /\ UNCHANGED <<sessionVars, convVars, storeVars, batchVars>>
    \/ TxBegin /\ UNCHANGED <<sessionVars, convVars, storeVars, batchVars>>
    \/ TxFn /\ UNCHANGED <<sessionVars, convVars, storeVars, batchVars>>
    \/ TxCommit /\ UNCHANGED <<sessionVars, convVars, storeVars, batchVars>>
    \/ TxRollback /\ UNCHANGED <<sessionVars, convVars, storeVars, batchVars>>

SpecTx == Init /\ [][NextTx]_vars

----------------------------------------------------------------------------
(* The batch scripts: scrapeAllEmisiones() of src/unnamed/part_002,        *)
(* testAllLogins() of src/test-all-logins.ts and main() of                 *)
(* src/idse-descargar-archivos.ts                                          *)

Programs == {"emisiones", "logins", "descargas"}

\* client.cert_type
CertTypes == {"PFX", "CER+KEY", "other"}

\* the rows listCompleteIDSEClients() returns: distinct clients, each with
\* the id its container is stored under and its certificate type
ClientLists ==
    LET Rows == [id : Ids, certType : CertTypes]
    IN  {<<>>} \cup {<<r>> : r \in Rows}
               \cup {l \in Rows \X Rows : l[1].id # l[2].id}

\* what can happen while one client is processed: the client's folder cannot
\* be created, the conversion throws, login() throws, the request for the
\* Emision module or the patron list fails, the query of one patron or the
\* fetch of one page fails, or nothing fails
Happenings(prog, certType) ==
    (IF prog = "emisiones" THEN {} ELSE {"folder fails"})
        \cup (CASE certType = "other" -> {"unknown type"}
                [] certType = "CER+KEY" ->
                       {"conversion fails", "login fails", "item fails", "ok"}
                [] OTHER -> {"login fails", "item fails", "ok"})
        \cup (IF prog # "logins" /\ certType # "other"
              THEN {"navigation fails"} ELSE {})

\* the client's container is stored: the type is CER+KEY and the conversion
\* returned
Stores(certType, h) ==
    certType = "CER+KEY" /\ h \notin {"folder fails", "conversion fails"}

\* the result pushed for the client: scrapeClientEmisiones sets status, the
\* loop of testAllLogins pushes a status, processClient returns totalDownloads
\* (0 from its catch block) and no status
ResultOf(prog, client, h, n) ==
    [client |-> client.id,
     happened |-> h,
     status |->
         IF prog = "descargas" THEN "none"
         ELSE IF h \in {"ok", "item fails"} THEN "SUCCESS" ELSE "ERROR",
     totalDownloads |->
         IF prog = "descargas" /\ h \in {"ok", "item fails"} THEN n ELSE 0]

\* how the summaries count a result: r.status === 'SUCCESS', and
\* r.totalDownloads > 0 in the download script
Successful(r) == r.status = "SUCCESS" \/ r.totalDownloads > 0

\* the script starts: main() up to its first await, listCompleteIDSEClients()
Main(prog) ==
    /\ batchPc = "idle"
    /\ program' = prog
    /\ batchPc' = "list"
    /\ UNCHANGED <<clients, cursor, results, exit, cleanup>>

\* the query settles: it rejects, or returns no client (return), or the loop
\* begins
ListClients ==
    /\ batchPc = "list"
    /\ \/ /\ exit' = "fatal"
          /\ batchPc' = "finally"
          /\ UNCHANGED clients
       \/ \E list \in ClientLists :
             /\ clients' = list
             /\ IF list = <<>>
                THEN exit' = "empty" /\ batchPc' = "finally"
                ELSE exit' = "none" /\ batchPc' = "loop"
    /\ UNCHANGED <<program, cursor, results, cleanup>>

\* one turn of the loop: the client at the cursor is processed and its result
\* pushed, unless its folder cannot be created, which happens outside the
\* try block and leaves the loop
ProcessClient ==
    /\ batchPc = "loop"
    /\ cursor <= Len(clients)
    /\ \E h \in Happenings(program, clients[cursor].certType),
          buffer \in Buffers, n \in {0, 1} :
         /\ IF Stores(clients[cursor].certType, h)
            THEN storePFX(clients[cursor].id, buffer)
            ELSE UNCHANGED storeVars
         /\ IF h = "folder fails"
            THEN /\ exit' = "fatal"
                 /\ batchPc' = "finally"
                 /\ UNCHANGED <<results, cursor>>
            ELSE /\ results' =
                        Append(results,
                               ResultOf(program, clients[cursor], h, n))
                 /\ cursor' = cursor + 1
                 /\ batchPc' =
                        IF cursor = Len(clients) THEN "summary" ELSE "loop"
                 /\ UNCHANGED exit
    /\ UNCHANGED <<program, clients, cleanup>>

\* after the loop: the summary is printed and, but in the download script,
\* a file written, which may throw
Summary ==
    /\ batchPc = "summary"
    /\ \E written_ok \in IF program = "descargas" THEN {TRUE} ELSE BOOLEAN :
          exit' = IF written_ok THEN "normal" ELSE "fatal"
    /\ batchPc' = "finally"
    /\ UNCHANGED <<program, clients, cursor, results, cleanup>>

\* Finally ending the pool without clearing the store
FinallyPoolOnly ==
    /\ batchPc = "finally"
    /\ cleanup' = <<"endPool">>
    /\ batchPc' = "done"
    /\ UNCHANGED storeVars
    /\ UNCHANGED <<program, clients, cursor, results, exit>>

\* finally { clearAllPFX(); await endPool(); }
Finally ==
    /\ batchPc = "finally"
    /\ clearAllPFX
    /\ cleanup' = <<"clearAllPFX", "endPool">>
    /\ batchPc' = "done"
    /\ UNCHANGED <<program, clients, cursor, results, exit>>

NextBatch ==
    \/ /\ \E prog \in Programs : Main(prog)
       /\ UNCHANGED <<sessionVars, convVars, storeVars, txVars>>
    \/ ListClients /\ UNCHANGED <<sessionVars, convVars, storeVars, txVars>>
    \/ ProcessClient /\ UNCHANGED <<sessionVars, convVars, txVars>>
    \/ Summary /\ UNCHANGED <<sessionVars, convVars, storeVars, txVars>>
    \/ Finally /\ UNCHANGED <<sessionVars, convVars, txVars>>

SpecBatch == Init /\ [][NextBatch]_vars

----------------------------------------------------------------------------
(* Properties *)

Events(s) == {trace[s][i] : i \in 1..Len(trace[s])}

\* the events of the signing and submission steps
SignerEvents ==
    {"generarPKCS7", "PFX request", "PFX response", "fromDer",
     "pkcs12FromAsn1", "createSignedData", "sign", "AccesoIDSE request",
     "AccesoIDSE response"}

\* the challenge request failed, or its body is empty or blank
ChallengeFailed(s) ==
    \/ challenge[s].kind \in {"rejected", "not ok", "body rejected"}
    \/ /\ challenge[s].kind = "ok"
       /\ \A i \in 1..Len(challenge[s].body) : challenge[s].body[i] = "sp"

\* the failures of the spec's NetworkError category at the challenge step
NetworkErrors == {FetchRejected, SecuenciaFirmaFailed, SecuenciaFirmaEmpty}

\* C1: once the challenge request has failed or returned an empty body, the
\* login has ended by throwing a network failure, and nothing of the signing
\* or submission steps has happened in that attempt: generarPKCS7 was not
\* called, no container was fetched or opened, nothing was signed and no
\* login request was sent.
C1_ChallengeFailureShortCircuits ==
    \A s \in Sessions :
        ChallengeFailed(s) =>
            /\ pc[s] = "idle"
            /\ result[s].status = "threw"
            /\ result[s].err \in NetworkErrors
            /\ Events(s) \cap SignerEvents = {}
            /\ container[s] = NoContainer
            /\ ~p7[s].built
            /\ ~loginPost[s].sent

C1_Witness ==
    \E s \in Sessions :
        /\ challenge[s] = [kind |-> "ok", body |-> <<>>]
        /\ result[s] = Threw(SecuenciaFirmaEmpty)
        /\ trace[s] = <<"SecuenciaFirma request", "SecuenciaFirma response">>

\* C2: once the login endpoint has answered 200 without a Set-Cookie header,
\* login() has thrown and isLoggedIn() is false; when the body of that
\* answer could be read, the error is the "No cookies received" rejection.
C2_NoSetCookieIsRejected ==
    \A s \in Sessions :
        (/\ loginAnswer[s].kind = "response"
         /\ loginAnswer[s].ok
         /\ loginAnswer[s].setCookie = HeaderAbsent) =>
            /\ pc[s] = "idle"
            /\ result[s].status = "threw"
            /\ loginAnswer[s].bodyReadable => result[s].err = NoCookies
            /\ ~isLoggedIn(s)
            /\ sessionState[s] = "Failed"

\* ... reached on an instance whose earlier login had succeeded
C2_Witness ==
    \E s \in Sessions :
        /\ loginAnswer[s] = [kind |-> "response", ok |-> TRUE,
                             setCookie |-> HeaderAbsent, bodyReadable |-> TRUE]
        /\ result[s] = Threw(NoCookies)
        /\ isInitialized[s]

\* in the trace of s, every b comes after some a
Before(s, a, b) ==
    \A i \in 1..Len(trace[s]) :
        trace[s][i] = b => \E j \in 1..(i - 1) : trace[s][j] = a

\* C3: in one login attempt the steps run in order: the challenge answer is
\* received before generarPKCS7 is called and the container requested, the
\* container is opened and the signature made before the login request is
\* sent; while signing, the text to sign is the challenge body received, and
\* while submitting, the PEM text exists.
C3_StepsInOrder ==
    \A s \in Sessions :
        /\ Before(s, "SecuenciaFirma request", "SecuenciaFirma response")
        /\ Before(s, "SecuenciaFirma response", "generarPKCS7")
        /\ Before(s, "generarPKCS7", "PFX request")
        /\ Before(s, "PFX response", "fromDer")
        /\ Before(s, "pkcs12FromAsn1", "createSignedData")
        /\ Before(s, "createSignedData", "sign")
        /\ Before(s, "sign", "AccesoIDSE request")
        /\ Before(s, "AccesoIDSE response", "AfiliaResultados request")
           \/ trace[s][1] = "AfiliaResultados request"
        /\ pc[s] \in {"awaitPfx", "openPfx", "sign"} =>
               /\ challenge[s].kind = "ok"
               /\ firstResponseText[s] = Text(challenge[s].body)
               /\ ~p7[s].built /\ ~loginPost[s].sent
        /\ pc[s] \in {"submit", "awaitLogin"} =>
               /\ p7[s].built /\ Len(p7[s].content) = Len(challenge[s].body)
               /\ pkcs7[s] # <<>>
        /\ pc[s] = "awaitLogin" <=> loginPost[s].sent

C3_Witness ==
    \E s \in Sessions :
        /\ pc[s] = "awaitLogin"
        /\ loginPost[s].sent
        /\ trace[s] = <<"SecuenciaFirma request", "SecuenciaFirma response",
                        "generarPKCS7", "PFX request", "PFX response",
                        "fromDer", "pkcs12FromAsn1", "createSignedData",
                        "sign", "AccesoIDSE request">>

\* C4: isLoggedIn() is true exactly when a token is held and the latest
\* handshake of the instance has completed successfully (Authenticated).
\* Fails: a second login() on an authenticated instance leaves the old
\* cookie and isInitialized in place while it runs and when it throws.
C4_LoggedInIffAuthenticated ==
    \A s \in Sessions :
        isLoggedIn(s) <=>
            (cookies[s] # Undefined /\ sessionState[s] = "Authenticated")

\* C5: once the login endpoint has answered 2xx with a cookie in Set-Cookie,
\* the field cookies is exactly that header value, isInitialized and
\* isLoggedIn() are true, the session is Authenticated, and a login() call
\* has returned true.
C5_SetCookieAuthenticates ==
    \A s \in Sessions :
        (/\ loginAnswer[s].kind = "response"
         /\ loginAnswer[s].ok
         /\ loginAnswer[s].setCookie \in Tokens) =>
            /\ cookies[s] = loginAnswer[s].setCookie
            /\ isInitialized[s]
            /\ isLoggedIn(s)
            /\ sessionState[s] = "Authenticated"
            /\ op[s] = "login" => pc[s] = "idle" /\ result[s] = Returned

C5_Witness ==
    \E s \in Sessions :
        /\ loginAnswer[s].kind = "response" /\ loginAnswer[s].ok
        /\ loginAnswer[s].setCookie = "JSESSIONID=b"
        /\ cookies[s] = "JSESSIONID=b"
        /\ op[s] = "login" /\ result[s] = Returned

FullHandshake ==
    <<"SecuenciaFirma request", "SecuenciaFirma response", "generarPKCS7",
      "PFX request", "PFX response", "fromDer", "pkcs12FromAsn1",
      "createSignedData", "sign", "AccesoIDSE request", "AccesoIDSE response">>

SigningStepFailed(s) ==
    /\ result[s].status = "threw"
    /\ "generarPKCS7" \in Events(s)
    /\ "AccesoIDSE request" \notin Events(s)

\* C8 as stated: every error of the signing step reaches the caller as
\* "incorrect container password" or "invalid or corrupt container".
C8_ClosedSetOfSigningErrors ==
    \A s \in Sessions :
        SigningStepFailed(s) =>
            result[s].err \in {PfxPasswordIncorrect, PfxInvalid}

\* C8, amended: an Error caught in the try block of generarPKCS7 reaches the
\* caller as "incorrect container password" when its message holds "Invalid
\* password" or "MAC verify failure", else as "invalid or corrupt container"
\* when it holds "Invalid PFX" or "ASN.1"; every other error of the signing
\* step reaches the caller unchanged: a failed or empty container fetch
\* (thrown before the try block), a missing key or certificate bag, an empty
\* PEM result, an Error with another message, a thrown value that is no Error.
C8_SigningErrorsNormalisedByMessage ==
    \A s \in Sessions :
        SigningStepFailed(s) =>
            IF raised[s] = NoError
            THEN result[s].err \in {FetchRejected, PfxFetchFailed, PfxEmpty}
            ELSE result[s].err =
                   IF /\ raised[s].name # "not an Error"
                      /\ raised[s].kw \cap {"Invalid password", "MAC verify failure"} # {}
                   THEN PfxPasswordIncorrect
                   ELSE IF /\ raised[s].name # "not an Error"
                           /\ raised[s].kw \cap {"Invalid PFX", "ASN.1"} # {}
                   THEN PfxInvalid
                   ELSE raised[s]

\* an Error whose message holds a phrase of both tests
C8_Witness ==
    \E s \in Sessions :
        /\ SigningStepFailed(s)
        /\ raised[s] = [name |-> "library Error",
                        kw |-> {"Invalid password", "ASN.1"}]
        /\ result[s].err = PfxPasswordIncorrect

\* the container failed to load: it did not open, or a bag is missing
LoadFailed(s) ==
    \/ container[s].status = "open failed"
    \/ /\ container[s].status = "opened"
       /\ container[s].key = "null" \/ container[s].cert = "null"

\* C9: when the container did not open, or opened without a usable private
\* key bag or certificate bag, generarPKCS7 has thrown before building any
\* signed-data structure and no login request was sent; a signed-data
\* structure exists only over a key and a certificate of an opened container.
C9_NoSignatureWithoutContainer ==
    \A s \in Sessions :
        /\ LoadFailed(s) =>
               /\ pc[s] = "idle"
               /\ result[s].status = "threw"
               /\ raised[s] # NoError
               /\ Events(s) \cap {"createSignedData", "sign",
                                  "AccesoIDSE request"} = {}
               /\ ~p7[s].built
               /\ ~loginPost[s].sent
        /\ p7[s].built =>
               /\ container[s].status = "opened"
               /\ p7[s].key = container[s].key /\ p7[s].key # "null"
               /\ p7[s].cert = container[s].cert /\ p7[s].cert # "null"

C9_Witness ==
    \E s \in Sessions :
        /\ container[s].status = "opened"
        /\ container[s].key = "v1" /\ container[s].cert = "null"
        /\ raised[s] = BagsMissing
        /\ result[s] = Threw(BagsMissing)

\* the base64 lines of a PEM body, joined
Flatten(lines) == JoinLines(lines, <<>>)

\* C10 as stated: the pkcs7 field is the PEM text without its line breaks,
\* the opening marker kept and the closing marker in its "+" form.
C10_OpeningMarkerKept ==
    \A s \in Sessions :
        loginPost[s].sent =>
            \E b \in PemBodies :
                /\ pkcs7[s] = PemEncode(b)
                /\ loginPost[s].pkcs7 =
                       BeginMarker \o Flatten(b) \o EndPlusMarker

\* C10, amended: the pkcs7 field is the PEM text with all line breaks
\* removed, the opening marker removed and the closing marker replaced by
\* its "+" form: the base64 body followed by -----END+PKCS7-----, nothing else.
C10_OpeningMarkerRemoved ==
    \A s \in Sessions :
        loginPost[s].sent =>
            \E b \in PemBodies :
                /\ pkcs7[s] = PemEncode(b)
                /\ loginPost[s].pkcs7 = Flatten(b) \o EndPlusMarker

C10_Witness ==
    \E s \in Sessions :
        /\ loginPost[s].sent
        /\ pkcs7[s] = PemEncode(<<<<"a">>, <<"b">>>>)
        /\ loginPost[s].pkcs7 = <<"a", "b">> \o EndPlusMarker

\* the login form carries the PEM text of a signature that this session made
\* with its own container and its own password
SignedWithOwnContainer(s) ==
    /\ p7[s].built
    /\ loginPost[s].pkcs7 = ParsePkcs7(pkcs7[s])
    /\ container[s].status = "opened"
    /\ container[s].url = PfxURL(s)
    /\ container[s].password = Password(s)
    /\ p7[s].key = container[s].key
    /\ p7[s].cert = container[s].cert
    /\ loginPost[s].idUsuario = User(s)
    /\ loginPost[s].password = Password(s)

----------------------------------------------------------------------------
(* Properties of the converter *)

\* the key was parsed in the conversion
KeyParsed == parsed.privateKey.tried # <<>>

\* what strategy k gives for the key file and the password of the conversion
Given(k) == Strategy(k, job.key, job.password, job.luck)

LastTried == parsed.privateKey.tried[Len(parsed.privateKey.tried)]

\* C12 as stated: the strategies tried are 1, 2, 3, ... in this order, each
\* after the one before it failed, up to the first that succeeds or to the
\* fifth, and the first success gives the key.
C12_FixedOrderOneToFive ==
    KeyParsed =>
        /\ \A i \in 1..Len(parsed.privateKey.tried) :
               parsed.privateKey.tried[i] = i
        /\ \A i \in 1..(Len(parsed.privateKey.tried) - 1) :
               Given(i).err # NoError
        /\ Given(LastTried).err # NoError => LastTried = 5
        /\ parsed.privateKey.val = Given(LastTried).val

\* C12, amended: the text of the key file picks the strategies.  A text
\* holding "-----BEGIN" is read by one PEM strategy only, (2) when
\* convertFromUrls finds "ENCRYPTED" in it and (1) otherwise, and its failure
\* is final.  Bytes without "-----BEGIN" are read by (3), then by (4) if and
\* only if (3) failed, then by (5) if and only if (4) failed, in
\* convertFromUrls, and by (3) alone in convertCerKeyToPfx.  The first
\* strategy that succeeds gives the key.
C12_MarkersPickTheStrategies ==
    KeyParsed =>
        /\ parsed.privateKey.tried =
               IF job.key.begin
               THEN IF job.via = "urls" /\ job.key.encrypted
                    THEN <<2>> ELSE <<1>>
               ELSE IF job.via = "files" \/ Given(3).err = NoError THEN <<3>>
               ELSE IF Given(4).err = NoError THEN <<3, 4>>
               ELSE <<3, 4, 5>>
        /\ parsed.privateKey.val = Given(LastTried).val
        /\ parsed.privateKey.err = Given(LastTried).err
        /\ parsed.privateKey.err = NoError =>
               parsed.privateKey.val = job.key.key

\* an encrypted DER key under its password: (3) fails, (4) gives the key
C12_Witness ==
    /\ KeyParsed
    /\ job.key.holds = "encrypted key" /\ ~job.key.begin
    /\ job.key.sealedWith = job.password
    /\ parsed.privateKey.tried = <<3, 4>>
    /\ parsed.privateKey.val = job.key.key

\* C13: when the strategies of the chain have all been tried and have all
\* failed, no key is returned and the conversion has thrown the error of
\* exhaustion, "Cannot decrypt private key with any method".
\* Fails: the error that strategy (5) throws itself reaches the caller as
\* it is; the error of exhaustion is thrown only when (5) returns no key.
C13_ExhaustionThrowsCannotDecrypt ==
    (KeyParsed /\ parsed.privateKey.tried = <<3, 4, 5>>
               /\ Given(5).err # NoError) =>
        /\ parsed.privateKey.val = "null"
        /\ output = ConvThrew(ConverterErrors.cannotDecrypt)

\* C14: when key parsing fails, the error the conversion throws is the error
\* of the last strategy tried; every strategy tried before it failed too, and
\* its error is not the one thrown.
C14_LastStrategysErrorSurfaces ==
    KeyParsed =>
        /\ parsed.privateKey.err # NoError <=> output.status = "threw"
        /\ output.status = "threw" =>
               /\ output.err = Given(LastTried).err
               /\ parsed.privateKey.err = output.err
               /\ \A i \in 1..(Len(parsed.privateKey.tried) - 1) :
                      Given(parsed.privateKey.tried[i]).err # NoError

\* an encrypted DER key under a wrong password: three errors, the third thrown
C14_Witness ==
    /\ parsed.privateKey.tried = <<3, 4, 5>>
    /\ Given(3).err = ForgeErrors.notRsaPrivateKey
    /\ Given(4).err = ConverterErrors.decrypt
    /\ Given(5).err = ConverterErrors.cannotDecrypt
    /\ output = ConvThrew(ConverterErrors.cannotDecrypt)

\* C15: an unencrypted DER key is read by strategy (3), and the key parsed is
\* the key of the file whatever the password: parsing the same bytes under
\* any other password gives the same result.
C15_UnencryptedDerIgnoresPassword ==
    (KeyParsed /\ ~job.key.begin /\ job.key.holds = "key") =>
        /\ parsed.privateKey = Tried(<<3>>, Got(job.key.key))
        /\ \A password \in Passwords, luck \in Luck :
               ParsePrivateKey(job.via, job.key, password, luck)
                   = parsed.privateKey

\* ... converted by convertFromUrls under a password that is nobody's
C15_Witness ==
    /\ job.via = "urls"
    /\ ~job.key.begin /\ job.key.holds = "key" /\ job.key.key = "v2"
    /\ job.password = <<"password", "other">>
    /\ parsed.privateKey = Tried(<<3>>, Got("v2"))
    /\ output.status = "returned"

\* the errors by which the converter reports a failed decryption
WrongPasswordErrors ==
    {ConverterErrors.decryptWithPassword, ConverterErrors.decrypt,
     ConverterErrors.cannotDecrypt}

\* C16: convertFromUrls, given an encrypted key and a password that is not
\* the key's, returns no key and throws a wrong-password error.
\* Fails: when the padding of the wrongly decrypted bytes happens to be
\* well-formed, forge goes on to parse them and its parse error reaches the
\* caller.
C16_WrongPasswordIsReported ==
    (/\ KeyParsed /\ job.via = "urls"
     /\ job.key.holds \in {"legacy encrypted key", "encrypted key"}
     /\ job.key.sealedWith # job.password) =>
        /\ parsed.privateKey.val = "null"
        /\ output.status = "threw"
        /\ output.err \in WrongPasswordErrors

\* the certificate was parsed in the conversion
CertParsed == parsed.certificate.path # "none"

\* C17 as stated: the path is chosen from the bytes alone; bytes with the
\* marker are decoded as PEM and never given to a DER decoder, bytes without
\* it are decoded as DER; a failure on the path chosen is final.
C17_PathFromBytesAlone ==
    CertParsed =>
        /\ parsed.certificate.path = IF job.cer.marker THEN "pem" ELSE "der"
        /\ job.cer.marker => ~parsed.certificate.probed
        /\ \A password \in Passwords :
               ParseCertificate(job.via, job.cer, password).path
                   = parsed.certificate.path
        /\ parsed.certificate.err # NoError =>
               output = ConvThrew(parsed.certificate.err) /\ ~KeyParsed

\* C17, amended: convertFromUrls first gives bytes that are longer than 100
\* and begin 30 82, marker or not, to the DER decoder and tries them as a
\* PKCS#12 container under the password; when they open it returns them as
\* they are, so the path depends on the password too.  Otherwise, and always
\* in convertCerKeyToPfx, bytes with the marker are decoded as PEM only,
\* bytes without it as DER only, and a failure on that path is final: the
\* conversion throws that error and parses no key.
C17_ProbeThenPathFromMarker ==
    CertParsed =>
        /\ parsed.certificate.probed = (job.via = "urls" /\ job.cer.header)
        /\ parsed.certificate.path =
               IF /\ parsed.certificate.probed
                  /\ job.cer.der = "pfx"
                  /\ job.cer.sealedWith = job.password
               THEN "as is"
               ELSE IF job.cer.marker THEN "pem" ELSE "der"
        /\ parsed.certificate.path = "pem" =>
               /\ parsed.certificate.val = certificateFromPem(job.cer).val
               /\ parsed.certificate.err = certificateFromPem(job.cer).err
        /\ parsed.certificate.path = "der" =>
               /\ parsed.certificate.val = certificateFromAsn1(job.cer).val
               /\ parsed.certificate.err = certificateFromAsn1(job.cer).err
        /\ parsed.certificate.path = "as is" =>
               output = ConvReturned(AsContainer(job.cer)) /\ ~KeyParsed
        /\ parsed.certificate.err # NoError =>
               output = ConvThrew(parsed.certificate.err) /\ ~KeyParsed
        /\ job.via = "files" =>
               \A password \in Passwords :
                   ParseCertificate(job.via, job.cer, password)
                       = parsed.certificate

\* a container under the name of a certificate, returned as it is under its
\* own password: the same bytes under another password take the DER path
C17_Witness ==
    /\ job.via = "urls"
    /\ job.cer.der = "pfx" /\ job.cer.sealedWith = job.password
    /\ parsed.certificate.probed /\ parsed.certificate.path = "as is"
    /\ output = ConvReturned(AsContainer(job.cer))
    /\ \E password \in Passwords :
           ParseCertificate(job.via, job.cer, password).path = "der"

\* the container holds a bag of the type, with its key or certificate
HasBag(bytes, type) ==
    \E i \in 1..Len(bytes.bags) :
        bytes.bags[i].type = type /\ bytes.bags[i].val # "null"

\* C18: validatePfx answers every buffer and every password with a boolean:
\* false for bytes that are no container, for a password that is not the
\* container's, for a container without a shrouded key bag or without a
\* certificate bag; true for a container that opens under the password and
\* holds both.
C18_ValidatePfxIsTotal ==
    verdict.asked =>
        /\ verdict.valid \in BOOLEAN
        /\ verdict.bytes.kind # "pkcs12" => ~verdict.valid
        /\ verdict.bytes.sealedWith # verdict.password => ~verdict.valid
        /\ ~HasBag(verdict.bytes, "pkcs8ShroudedKeyBag") => ~verdict.valid
        /\ ~HasBag(verdict.bytes, "certBag") => ~verdict.valid
        /\ (/\ verdict.bytes.kind = "pkcs12"
            /\ verdict.bytes.sealedWith = verdict.password
            /\ HasBag(verdict.bytes, "pkcs8ShroudedKeyBag")
            /\ HasBag(verdict.bytes, "certBag")) => verdict.valid

\* a container that opens under the password and holds a certificate and a
\* key, the key in a bag that is not shrouded: false
C18_Witness ==
    /\ verdict.asked /\ ~verdict.valid
    /\ verdict.bytes.kind = "pkcs12"
    /\ verdict.bytes.sealedWith = verdict.password
    /\ HasBag(verdict.bytes, "certBag") /\ HasBag(verdict.bytes, "keyBag")

\* the conversion built the container it returned
Built == output.status = "returned" /\ parsed.certificate.path # "as is"

----------------------------------------------------------------------------
(* Properties of the session's container *)

\* C20: a container whose first bytes were altered fails to open with
\* "Archivo PFX invalido o corrupto" and not with the wrong-password error;
\* a container that decodes but whose MAC does not verify under the password
\* fails with "Contrasena del certificado PFX incorrecta" and not with the
\* other.
\* Fails: the catch block knows a corrupt container by "Invalid PFX" or
\* "ASN.1" in the message, and forge reports some of them in other words.
C20_CorruptIsInvalidWrongPasswordIsIncorrect ==
    \A s \in Sessions :
        container[s].status = "open failed" =>
            /\ result[s].status = "threw"
            /\ result[s].err =
                   IF container[s].file.kind = "pkcs12"
                   THEN PfxPasswordIncorrect
                   ELSE PfxInvalid

----------------------------------------------------------------------------
(* Properties of the session: retries, instances, fields *)

\* how many times the call in progress did e
Count(s, e) == Cardinality({i \in 1..Len(trace[s]) : trace[s][i] = e})

\* C21: in one call the challenge request, the container request, the
\* opening of the container under the password and the login request are
\* each made at most once; a failure of any of them, a timeout (the fetch
\* rejects) included, ends the call with an error, nothing being in flight
\* and nothing of the later steps having been done.
C21_NoRetries ==
    \A s \in Sessions :
        /\ \A e \in {"SecuenciaFirma request", "PFX request", "fromDer",
                     "pkcs12FromAsn1", "AccesoIDSE request"} :
               Count(s, e) <= 1
        /\ result[s].status = "threw" => pc[s] = "idle"
        /\ challenge[s].kind \in {"rejected", "not ok", "body rejected"} =>
               /\ result[s].status = "threw"
               /\ Count(s, "PFX request") = 0
        /\ container[s].status = "open failed" =>
               /\ result[s].status = "threw"
               /\ Count(s, "AccesoIDSE request") = 0
        /\ (loginAnswer[s].kind = "rejected" \/
            (loginAnswer[s].kind = "response" /\ ~loginAnswer[s].ok)) =>
               /\ result[s].status = "threw"
               /\ Count(s, "AfiliaResultados request") = 0

\* the login request timed out: every step was done once and the call failed
C21_Witness ==
    \E s \in Sessions :
        /\ loginAnswer[s].kind = "rejected"
        /\ result[s] = Threw(FetchRejected)
        /\ pc[s] = "idle"
        /\ \A e \in {"SecuenciaFirma request", "PFX request",
                     "pkcs12FromAsn1", "AccesoIDSE request"} :
               Count(s, e) = 1

\* everything the model holds of instance t
StateOf(t) ==
    <<cookies[t], isInitialized[t], pc[t], op[t], firstResponseText[t],
      pkcs7[t], p7[t], loginPost[t], movCookie[t], trace[t], result[t],
      calls[t], challenge[t], container[t], raised[t], loginAnswer[t],
      sessionState[t]>>

\* what instance s signs, opens, sends and keeps is its own
OwnCredentials(s) ==
    /\ container[s].status # "none" =>
           /\ container[s].url = PfxURL(s)
           /\ container[s].password = Password(s)
    /\ p7[s].built =>
           /\ p7[s].content = Utf8Bytes(Text(challenge[s].body))
           /\ p7[s].key = container[s].key
           /\ p7[s].cert = container[s].cert
    /\ loginPost[s].sent =>
           /\ loginPost[s].idUsuario = User(s)
           /\ loginPost[s].password = Password(s)
    /\ sessionState[s] = "Authenticated" =>
           /\ cookies[s] = CookiesFrom(loginAnswer[s].setCookie)
           /\ isLoggedIn(s)

\* C22: two instances built for different credential sets, their steps
\* interleaved in every way: each signs its own challenge with the container
\* of its own URL under its own password, sends its own user and password
\* and keeps the token of its own login answer; no step of one instance
\* changes anything of the other.
C22_InstancesDoNotInterfere ==
    /\ [](\A s \in Instances : OwnCredentials(s))
    /\ [][\E s \in Instances :
              \A t \in Instances \ {s} : StateOf(t)' = StateOf(t)]_vars

\* both login requests in flight at once, each with its own credentials
\* over its own challenge
C22_Witness ==
    /\ pc["s1"] = "awaitLogin" /\ pc["s2"] = "awaitLogin"
    /\ loginPost["s1"].password = Password("s1")
    /\ loginPost["s2"].password = Password("s2")
    /\ loginPost["s1"].password # loginPost["s2"].password
    /\ p7["s1"].content # p7["s2"].content

----------------------------------------------------------------------------
(* Properties of the PFX server *)

\* C23: once a buffer is stored under an id, a later storePFX under the same
\* id does not replace it and every read of the id gives that buffer, until
\* the id is removed or the store cleared.
\* Fails: storePFX is Map.set, which replaces.
C23_WriteOnceReadMany ==
    \A id \in Ids :
        /\ written[id] # Absent => pfxStorage[id] = written[id]
        /\ (served.path = <<"/pfx/", id>> /\ served.status = 200) =>
               (written[id] # Absent => served.body = written[id])

----------------------------------------------------------------------------
\* C29: in convertFromUrls, certificate bytes that are a container opening
\* under the password are returned unchanged, with no certificate or key parsed
\* and nothing built; otherwise the failure of the probe is swallowed and the
\* certificate is parsed; every container convertFromUrls returns holds both a
\* key bag and a certificate bag.
\* Fails: the probe only opens the container, it does not look at its bags,
\* so a container without a key bag or without a certificate bag is returned.
C29_ProbeReturnsCompleteContainer ==
    (job.via = "urls" /\ output.status # "none") =>
        /\ (/\ parsed.certificate.probed
            /\ job.cer.der = "pfx"
            /\ job.cer.sealedWith = job.password) =>
               /\ output = ConvReturned(AsContainer(job.cer))
               /\ parsed.certificate.val = "null"
               /\ ~KeyParsed
        /\ (/\ parsed.certificate.probed
            /\ ~(job.cer.der = "pfx" /\ job.cer.sealedWith = job.password)) =>
               parsed.certificate.path \in {"pem", "der"}
        /\ output.status = "returned" =>
               /\ \/ HasBag(output.bytes, "pkcs8ShroudedKeyBag")
                  \/ HasBag(output.bytes, "keyBag")
               /\ HasBag(output.bytes, "certBag")

\* C25: when the login endpoint answers with a non-2xx status, login() throws
\* "AccesoIDSE failed" and the fields cookies and isInitialized keep the values
\* they had before the call, whatever Set-Cookie header the answer carries; no
\* step of a call writes them before the answer either.
C25_NonOkAnswerLeavesSession ==
    [][\A s \in Sessions :
          /\ (/\ pc[s] = "awaitLogin"
              /\ loginAnswer'[s].kind = "response"
              /\ ~loginAnswer'[s].ok) =>
                 /\ pc'[s] = "idle"
                 /\ result'[s] = Threw(AccesoIDSEFailed)
                 /\ cookies'[s] = cookies[s]
                 /\ isInitialized'[s] = isInitialized[s]
          /\ (pc[s] # "idle" /\ pc[s] # "awaitLogin") =>
                 /\ cookies'[s] = cookies[s]
                 /\ isInitialized'[s] = isInitialized[s]]_vars

C25_Witness ==
    \E s \in Sessions :
        /\ loginAnswer[s].kind = "response" /\ ~loginAnswer[s].ok
        /\ loginAnswer[s].setCookie = "JSESSIONID=b"
        /\ result[s] = Threw(AccesoIDSEFailed)
        /\ cookies[s] = "JSESSIONID=a"
        /\ isInitialized[s]

\* C26: after any sequence of login() calls on one instance, when the most
\* recent login() threw, isLoggedIn() is false.
\* Fails: login() never clears cookies or isInitialized, so a login() that
\* throws on an instance already logged in leaves isLoggedIn() true.
C26_ThrownLoginIsLoggedOut ==
    \A s \in Sessions :
        (op[s] = "login" /\ pc[s] = "idle" /\ result[s].status = "threw") =>
            ~isLoggedIn(s)

(* Properties of transaction() *)

\* the position of event e in the log, 0 when it is not there
At(e) ==
    IF \E i \in 1..Len(txLog) : txLog[i] = e
    THEN CHOOSE i \in 1..Len(txLog) : txLog[i] = e
    ELSE 0

\* C24: COMMIT is issued only after BEGIN and fn succeeded; when BEGIN, fn
\* or COMMIT throws, ROLLBACK is issued and the error that was caught is the
\* error the caller gets; the client is released exactly once, last of all,
\* after COMMIT or ROLLBACK.
\* Fails: when ROLLBACK itself rejects, its error replaces the one caught.
C24_RollbackRethrowsOriginal ==
    /\ At("COMMIT") > 0 =>
           SubSeq(txLog, 1, At("COMMIT")) = <<"connect", "BEGIN", "fn", "COMMIT">>
    /\ txCaught # NoError => At("ROLLBACK") > 0
    /\ (txPc = "idle" /\ At("release") > 0) =>
           /\ txLog[Len(txLog)] = "release"
           /\ Cardinality({i \in 1..Len(txLog) : txLog[i] = "release"}) = 1
           /\ txLog[Len(txLog) - 1] \in {"COMMIT", "ROLLBACK"}
           /\ txCaught # NoError => txResult = Thrown(txCaught)
           /\ txCaught = NoError =>
                  txResult = Got(txLocal) /\ txLocal \in Values


(* Properties of the batch scripts *)

\* C27: a batch run processes the clients one at a time in list order and
\* records exactly one result per client: whatever happens for a client
\* (conversion failure, unknown certificate type, login failure, scraping
\* error) its result is appended with a non-success status, and every later
\* client is still processed.
\* Fails: a patron query or a page fetch that fails is caught inside the
\* client's own processing and the result is pushed as a success; and a
\* client folder that cannot be created throws outside the try block, so the
\* client gets no result and the later clients are not processed.
C27_OneNonSuccessResultPerFailure ==
    /\ Len(results) = cursor - 1
    /\ \A i \in 1..Len(results) :
           /\ results[i].client = clients[i].id
           /\ results[i].happened # "ok" => ~Successful(results[i])
    /\ (batchPc \in {"finally", "done"} /\ clients # <<>>) =>
           Len(results) = Len(clients)

\* C28: on every way out of a batch run (normal completion, empty client
\* list, fatal error) the finally block clears the store and then ends the
\* pool; it runs once, after the last client processed, nothing is processed
\* or stored after it, and no stored container is left when the run is over.
C28_CleanupOnEveryExit ==
    /\ [](/\ batchPc = "done" =>
                /\ exit \in {"normal", "empty", "fatal"}
                /\ cleanup = <<"clearAllPFX", "endPool">>
                /\ \A id \in Ids : pfxStorage[id] = Absent
          /\ batchPc # "done" => cleanup = <<>>
          /\ exit = "normal" => Len(results) = Len(clients)
          /\ exit = "empty" => clients = <<>> /\ results = <<>>)
    /\ [][batchPc = "done" =>
              /\ results' = results
              /\ cursor' = cursor
              /\ pfxStorage' = pfxStorage
              /\ cleanup' = cleanup]_vars

\* a run that ended on a fatal error after a CER+KEY client's container had
\* been stored: the store is empty and the pool ended
C28_Witness ==
    /\ batchPc = "done"
    /\ exit = "fatal"
    /\ \E i \in 1..Len(results) :
           clients[i].certType = "CER+KEY" /\ results[i].status = "SUCCESS"
    /\ lastOp.name = "clearAllPFX"
    /\ \A id \in Ids : pfxStorage[id] = Absent
    /\ cleanup = <<"clearAllPFX", "endPool">>

====
